---- MODULE Spec2Model ----
(***************************************************************************)
(* Model of the scheduling core of time-away:                              *)
(*   src/server/src/__init__.py          calendar helpers, value types     *)
(*   src/server/src/search/_search.py    PlanStore, DaySolver,             *)
(*                                       WeeklyScheduler                   *)
(*   src/server/src/search/pto_tools.py  PTO admission, month view         *)
(* Dates are day numbers (day 0 is a Monday); epochs are counted in ticks, *)
(* TicksPerDay of them to a day.  Strings are compared through Lex.        *)
(***************************************************************************)
EXTENDS Integers, Sequences, FiniteSets, TLC

\* ------------------------------------------------------------------ bounds
TicksPerDay == 2
MaxReq      == 2
MaxWeeks    == 2

\* ---------------------------------------------------------------- universe
Persons == {"p1", "p2", "p3"}
Skills  == {"a", "b"}
TaskIds == {"t1", "t2"}
Procs   == {1, 2}

\* Person.name of the three Person values (two persons share a name)
PersonName == [p \in Persons |-> IF p = "p2" THEN "Al" ELSE "Bo"]

\* every string the program compares, in Python's str order
Lex == <<"Al", "Bo", "X", "Y", "a", "b", "p1", "p2", "p3", "t1", "t2">>
Ord(s) == CHOOSE i \in 1..Len(Lex) : Lex[i] = s

\* ------------------------------------------------------- sequence helpers
Range(s) == {s[i] : i \in 1..Len(s)}

RECURSIVE LexLess(_, _)
\* Python's tuple comparison k1 < k2 on integer tuples of equal length
LexLess(k1, k2) ==
    IF k1 = <<>> THEN FALSE
    ELSE IF k1[1] < k2[1] THEN TRUE
    ELSE IF k1[1] > k2[1] THEN FALSE
    ELSE LexLess(Tail(k1), Tail(k2))

\* x goes behind every element whose key is not greater (stable)
InsertByKey(s, x, key) ==
    LET n == Cardinality({i \in 1..Len(s) : ~LexLess(key[x], key[s[i]])})
    IN  SubSeq(s, 1, n) \o <<x>> \o SubSeq(s, n + 1, Len(s))

RECURSIVE sorted(_, _)
\* Python's sorted(s, key=...): stable, ascending
sorted(s, key) ==
    IF s = <<>> THEN <<>>
    ELSE InsertByKey(sorted(SubSeq(s, 1, Len(s) - 1), key), s[Len(s)], key)

RECURSIVE SelectSeqBy(_, _)
\* list comprehension [x for x in s if x in keep]
SelectSeqBy(s, keep) ==
    IF s = <<>> THEN <<>>
    ELSE IF s[1] \in keep THEN <<s[1]>> \o SelectSeqBy(Tail(s), keep)
    ELSE SelectSeqBy(Tail(s), keep)

RECURSIVE SetToSeq(_)
\* list(S): the elements of a set in some order
SetToSeq(S) ==
    IF S = {} THEN <<>>
    ELSE LET x == CHOOSE y \in S : TRUE IN <<x>> \o SetToSeq(S \ {x})

\* --------------------------------------------------------------- calendar
epoch_to_date(ts) == ts \div TicksPerDay
\* the day itself
SameDay(d) == d

start_of_week(d)  == d - (d % 7)

\* one Task value; daily_requirements is a dict, kept in insertion order
\* as a sequence of <<skill, count>> pairs with distinct skills
ReqKeys(t)   == {t.daily_requirements[i][1] : i \in 1..Len(t.daily_requirements)}
ReqKeySeq(t) == [i \in 1..Len(t.daily_requirements) |-> t.daily_requirements[i][1]]
ReqOf(t, s)  ==
    LET i == CHOOSE j \in 1..Len(t.daily_requirements) : t.daily_requirements[j][1] = s
    IN  t.daily_requirements[i][2]

is_task_active_on_day(t, day) ==
    /\ epoch_to_date(t.start_epoch) <= day
    /\ day <= epoch_to_date(t.end_epoch)

\* _day_interval of src/src/search/_search.py: first tick of the day and
\* first tick of the next day
_day_interval(day) == <<day * TicksPerDay, (day + 1) * TicksPerDay>>

\* Task.is_active_on_day of src/src/search/_search.py (HorizonScheduler)
is_active_on_day(t, day_start_ts, day_end_ts) ==
    (t.start_ts < day_end_ts) /\ (t.end_ts > day_start_ts)

\* -------------------------------------------------------------- PlanStore
EmptyStore == [p \in Persons |-> {}]

assigned_on(st, person_id, day) == day \in st[person_id]

count_in_window(st, person_id, start_day, end_day) ==
    Cardinality({x \in st[person_id] : start_day <= x /\ x <= end_day})

\* the pending day is not added to the count
CanAssignStoredOnly(st, person_id, day, pending_same_day) ==
    count_in_window(st, person_id, day - 6, day)
        <= (IF pending_same_day THEN 5 ELSE 4)

\* the pending day is counted against the limit of the filter
CanAssignSameLimit(st, person_id, day, pending_same_day) ==
    LET used0 == count_in_window(st, person_id, day - 6, day)
        used  == IF pending_same_day /\ ~assigned_on(st, person_id, day)
                 THEN used0 + 1 ELSE used0
    IN  used <= 4

can_assign(st, person_id, day, pending_same_day) ==
    LET used0 == count_in_window(st, person_id, day - 6, day)
        used  == IF pending_same_day /\ ~assigned_on(st, person_id, day)
                 THEN used0 + 1 ELSE used0
    IN  used <= (IF pending_same_day THEN 5 ELSE 4)

\* the assignments are returned but not recorded
CommitNothing(st, assignments) == st

\* the person's days are replaced by the days of the list
CommitReplace(st, assignments) ==
    [p \in Persons |->
        LET new == {assignments[i].day :
                       i \in {j \in 1..Len(assignments) : assignments[j].person_id = p}}
        IN  IF new = {} THEN st[p] ELSE new]

commit(st, assignments) ==
    [p \in Persons |->
        st[p] \cup {assignments[i].day :
                      i \in {j \in 1..Len(assignments) : assignments[j].person_id = p}}]

\* date.isoformat / date.fromisoformat
\* a date that is a key or an element of a payload is wrapped (DateKey) so
\* that it stays distinct from its ISO string
isoformat(d)     == [kind |-> "str", day |-> d]
fromisoformat(s) == s.day
DateKey(d)       == [kind |-> "date", day |-> d]

\* to_json keeps only the persons that are keys of _days_by_person; a
\* person without days is a key with an empty list or no key at all, which
\* no query tells apart
to_json(st) ==
    [p \in Persons |->
        LET S == {isoformat(d) : d \in st[p]}
        IN  sorted(SetToSeq(S), [x \in S |-> <<fromisoformat(x)>>])]

\* the first day of every list is lost
FromJsonSkipsFirst(payload) ==
    [p \in Persons |-> {fromisoformat(payload[p][i]) : i \in 2..Len(payload[p])}]

from_json(payload) ==
    [p \in Persons |-> {fromisoformat(payload[p][i]) : i \in 1..Len(payload[p])}]

\* ------------------------------------------------------------------ state
VARIABLES
    skillsOf,        \* Person.skills of every Person value
    global_pto,      \* approved PTO records of the database: day -> persons
    db_up,           \* whether get_global_pto_map answers or raises
    heap,            \* the PlanStore objects: heap[i] is _days_by_person
    op,              \* per process: the operation it runs
    args,            \* per process: the arguments of the operation
    after,           \* per process: the calls its caller makes before it
    pc,              \* per process: position in the code
    store,           \* WeeklyScheduler.store (an index into heap)
    pto_map,         \* the pto_map handed to schedule_week
    end_wk,          \* last value of the week loop (end_wk / last)
    cur,             \* week loop variable
    d,               \* day loop variable of schedule_week
    wk_assignments,  \* schedule_week's all_assignments
    unsatisfied,     \* schedule_week's unsatisfied
    all_assignments, \* the caller's all_assignments
    any_unsat,       \* the caller's any_unsat / unsat_all
    sPeople,         \* DaySolver.people
    sTasks,          \* DaySolver.tasks
    deficits,        \* DaySolver.deficits
    assigned_today,  \* DaySolver.assigned_today (dict, insertion ordered)
    stack,           \* the frames of backtrack(): task, skill, candidates, ...
    feasible,        \* value returned by the last backtrack() call
    result,          \* what the operation returned
    hargs,           \* the arguments of HorizonScheduler(...)
    hpc,             \* position of the HorizonScheduler run in the code
    history_prev6,   \* HorizonScheduler.history_prev6: person -> six bits
    violations,      \* HorizonScheduler.violations (the days, in order)
    hdays,           \* build()'s days: the DaySchedules so far
    build_feasible,  \* build()'s feasible
    day_i,           \* index of build()'s loop into horizon_midnights
    uniq,            \* _attempt_day's uniq: the orderings to try
    ord_k,           \* index of _attempt_day's loop into uniq
    schedule,        \* the HorizonSchedule build() returned
    cargs,           \* the arguments of MultiDaySchedulerWeekCap(...)
    cpc,             \* position of the MultiDaySchedulerWeekCap run
    cday,            \* schedule()'s loop variable d
    days_worked,     \* MultiDaySchedule.days_worked: person -> week -> days
    by_day,          \* MultiDaySchedule.by_day: the DayAssignments so far
    raised,          \* the exception schedule() ended with, or "none"
    wargs,           \* the arguments of the WeeklyScheduler of src/src/sss.py
    wpc,             \* position of its run and of validate_schedule
    wday,            \* index of build()'s loop into week_days
    person_days_used, \* WeeklyScheduler.person_days_used
    wviolations,     \* WeeklyScheduler.violations
    wdays,           \* build()'s days
    wfeasible,       \* build()'s feasible
    week,            \* the WeekSchedule build() returned
    verdict          \* what validate_schedule returned

inputVars  == <<skillsOf, global_pto, db_up, op, args, after>>
driverVars == <<store, pto_map, end_wk, cur, d, wk_assignments, unsatisfied,
                all_assignments, any_unsat, result>>
solverVars == <<sPeople, sTasks, deficits, assigned_today, stack, feasible>>
serverVars == <<inputVars, heap, pc, driverVars, solverVars>>
hzVars == <<hargs, hpc, history_prev6, violations, hdays, build_feasible, day_i,
            uniq, ord_k, schedule>>
capVars == <<cargs, cpc, cday, days_worked, by_day, raised>>
weekVars == <<wargs, wpc, wday, person_days_used, wviolations, wdays, wfeasible,
              week, verdict>>
sssVars == <<capVars, weekVars>>
vars == <<serverVars, hzVars, sssVars>>

\* ----------------------------------------------------------- PTO maps
\* A PTO map as passed by a caller is a dict: a function from keys (DateKey
\* or ISO string) to the set of person ids its list names.
ParseDay(k) == IF k.kind = "str" THEN fromisoformat(k) ELSE k.day

\* dict.update / {**a, **b}
DictUpdate(a, b) ==
    [k \in DOMAIN a \cup DOMAIN b |-> IF k \in DOMAIN b THEN b[k] ELSE a[k]]

\* day -> sorted list of ids
_merge_pto_maps(maps) ==
    LET days == {ParseDay(k) : k \in UNION {DOMAIN maps[i] : i \in 1..Len(maps)}}
        ids(dd) == UNION {maps[i][k] : <<i, k>> \in
                      {x \in (1..Len(maps)) \X UNION {DOMAIN maps[j] : j \in 1..Len(maps)} :
                          x[2] \in DOMAIN maps[x[1]] /\ ParseDay(x[2]) = dd}}
    IN  [dd \in days |-> sorted(SetToSeq(ids(dd)), [p \in ids(dd) |-> <<Ord(p)>>])]

\* normalize_pto_map: day -> set of person ids (None and {} give {})
normalize_pto_map(m) == [k \in DOMAIN m |-> Range(m[k])]

\* ------------------------------------------------------------ DaySolver
PersonKey == [p \in Persons |-> <<Ord(PersonName[p]), Ord(p)>>]
TaskKey(ts) == [t \in Range(ts) |-> <<Ord(t.name), Ord(t.task_id)>>]

\* DaySolver.__init__ keeping the people in the order given
PeopleAsGiven(people) == people

\* DaySolver.__init__: self.people
DaySolverPeople(people) == sorted(people, PersonKey)

\* DaySolver.__init__: self.tasks
DaySolverTasks(tasks) == sorted(tasks, TaskKey(tasks))

\* DaySolver.__init__: the deficits dict
InitDeficits(ts) ==
    [tid \in {t.task_id : t \in Range(ts)} |->
        LET t == CHOOSE x \in Range(ts) : x.task_id = tid
        IN  [s \in {k \in ReqKeys(t) : ReqOf(t, k) > 0} |-> ReqOf(t, s)]]

task_by_id(ts, tid) == CHOOSE t \in Range(ts) : t.task_id = tid

DefGet(def, tid, s) == IF s \in DOMAIN def[tid] THEN def[tid][s] ELSE 0

\* _is_pto without the lookup: nobody is ever on PTO
IsPtoNever(pm, day, pid) == FALSE

_is_pto(pm, day, pid) == day \in DOMAIN pm /\ pid \in pm[day]

_all_satisfied(def) ==
    \A tid \in DOMAIN def : \A s \in DOMAIN def[tid] : def[tid][s] <= 0

\* the (task, skill) pairs in the order the two loops of _select_next_need
\* visit them
RECURSIVE NeedOrder(_, _)
NeedOrder(ts, def) ==
    IF ts = <<>> THEN <<>>
    ELSE LET t  == ts[1]
             ks == SelectSeqBy(ReqKeySeq(t), DOMAIN def[t.task_id])
         IN  [i \in 1..Len(ks) |-> <<t.task_id, ks[i]>>] \o NeedOrder(Tail(ts), def)

RECURSIVE ScanNeeds(_, _, _, _, _)
ScanNeeds(pairs, ts, def, best, best_need) ==
    IF pairs = <<>> THEN best
    ELSE LET tid == pairs[1][1]
             skill == pairs[1][2]
             cnt == def[tid][skill]
             key == <<Ord(task_by_id(ts, tid).name), Ord(skill)>>
             better ==
                 IF cnt > best_need THEN TRUE
                 ELSE /\ cnt = best_need
                      /\ best # <<>>
                      /\ LexLess(key, <<Ord(task_by_id(ts, best[1]).name), Ord(best[2])>>)
         IN  IF cnt > 0 /\ better
             THEN ScanNeeds(Tail(pairs), ts, def, <<tid, skill>>, cnt)
             ELSE ScanNeeds(Tail(pairs), ts, def, best, best_need)

\* the first pair of positive deficit in the order of the two loops
FirstNeed(ts, def) ==
    LET open == SelectSeq(NeedOrder(ts, def), LAMBDA e : def[e[1]][e[2]] > 0)
    IN  IF open = <<>> THEN <<>> ELSE open[1]

\* <<>> stands for None
_select_next_need(ts, def) == ScanNeeds(NeedOrder(ts, def), ts, def, <<>>, -1)

\* the filter of _candidates_for without the assigned_today test
EligibleAgain(p, t, skill, day, pm, st, asg) ==
    /\ ~_is_pto(pm, day, p)
    /\ skill \in skillsOf[p]
    /\ (ReqKeys(t) \cap skillsOf[p]) # {}
    /\ can_assign(st, p, day, FALSE)

\* the filter of _candidates_for
Eligible(p, t, skill, day, pm, st, asg) ==
    /\ ~_is_pto(pm, day, p)
    /\ p \notin {asg[i][1] : i \in 1..Len(asg)}
    /\ skill \in skillsOf[p]
    /\ (ReqKeys(t) \cap skillsOf[p]) # {}
    /\ can_assign(st, p, day, FALSE)

\* only the best-ranked candidate is tried
FirstCandidateOnly(ps, ts, def, asg, pm, st, day, task_id, required_skill) ==
    LET t == task_by_id(ts, task_id)
        can_cover == SelectSeqBy(ps, {p \in Persons :
                         Eligible(p, t, required_skill, day, pm, st, asg)})
        multi_cover(p) == Cardinality({s \in ReqKeys(t) :
                              s \in skillsOf[p] /\ DefGet(def, task_id, s) > 0})
        used_last6(p) == count_in_window(st, p, day - 6, day - 1)
        key == [p \in Persons |->
                   <<0 - multi_cover(p), used_last6(p), Ord(PersonName[p])>>]
        all == sorted(can_cover, key)
    IN  IF all = <<>> THEN <<>> ELSE <<all[1]>>

\* the candidates ranked by name alone
CandidatesByName(ps, ts, def, asg, pm, st, day, task_id, required_skill) ==
    LET t == task_by_id(ts, task_id)
        can_cover == SelectSeqBy(ps, {p \in Persons :
                         Eligible(p, t, required_skill, day, pm, st, asg)})
    IN  sorted(can_cover, [p \in Persons |-> <<Ord(PersonName[p])>>])

_candidates_for(ps, ts, def, asg, pm, st, day, task_id, required_skill) ==
    LET t == task_by_id(ts, task_id)
        can_cover == SelectSeqBy(ps, {p \in Persons :
                         Eligible(p, t, required_skill, day, pm, st, asg)})
        multi_cover(p) == Cardinality({s \in ReqKeys(t) :
                              s \in skillsOf[p] /\ DefGet(def, task_id, s) > 0})
        used_last6(p) == count_in_window(st, p, day - 6, day - 1)
        key == [p \in Persons |->
                   <<0 - multi_cover(p), used_last6(p), Ord(PersonName[p])>>]
    IN  sorted(can_cover, key)

\* an assignment that covers nothing
AssignNothing(p, t, def) == <<>>

\* the changes list of _assign_person_to_task
AssignChanges(p, t, def) ==
    LET covered == {s \in ReqKeys(t) :
                      s \in skillsOf[p] /\ DefGet(def, t.task_id, s) > 0}
        ks == SelectSeqBy(ReqKeySeq(t), covered)
    IN  [i \in 1..Len(ks) |-> <<ks[i], 1>>]

\* deficits after adding delta (as signed) to every skill of changes
ApplyChanges(def, tid, changes, sign) ==
    [def EXCEPT ![tid] =
        [s \in DOMAIN def[tid] |->
            def[tid][s] + sign * Cardinality({i \in 1..Len(changes) : changes[i][1] = s})]]

\* dict assignment asg[k] = v
DictSet(asg, k, v) ==
    IF \E i \in 1..Len(asg) : asg[i][1] = k
    THEN [i \in 1..Len(asg) |-> IF asg[i][1] = k THEN <<k, v>> ELSE asg[i]]
    ELSE Append(asg, <<k, v>>)

\* del asg[k]
DictDel(asg, k) == SelectSeq(asg, LAMBDA e : e[1] # k)

\* solve() listing every required skill as contributed
SolveResultsAllKeys(day, ts, asg) ==
    LET items == sorted(asg, [e \in Range(asg) |-> <<Ord(PersonName[e[1]])>>])
    IN  [i \in 1..Len(items) |->
            LET t == task_by_id(ts, items[i][2])
            IN  [day |-> day, person_id |-> items[i][1], task_id |-> t.task_id,
                 skills_contributed |->
                     sorted(ReqKeySeq(t), [s \in Skills |-> <<Ord(s)>>])]]

\* the Assignment list solve() builds when backtrack() succeeded
SolveResults(day, ts, asg) ==
    LET items == sorted(asg, [e \in Range(asg) |-> <<Ord(PersonName[e[1]])>>])
    IN  [i \in 1..Len(items) |->
            LET pid == items[i][1]
                t == task_by_id(ts, items[i][2])
                contrib == SelectSeqBy(ReqKeySeq(t), skillsOf[pid])
            IN  [day |-> day, person_id |-> pid, task_id |-> t.task_id,
                 skills_contributed |->
                     sorted(contrib, [s \in Skills |-> <<Ord(s)>>])]]

\* the deficit report solve() builds when backtrack() failed: task name ->
\* skill -> count; a later task of the same name replaces an earlier one
Remaining(ts, def) ==
    LET open(tid) == \E s \in DOMAIN def[tid] : def[tid][s] > 0
        idx(n) == {i \in 1..Len(ts) : ts[i].name = n /\ open(ts[i].task_id)}
        names == {ts[i].name : i \in {j \in 1..Len(ts) : open(ts[j].task_id)}}
    IN  [n \in names |->
            LET last == CHOOSE i \in idx(n) : \A j \in idx(n) : j <= i
                tid == ts[last].task_id
            IN  [s \in {k \in DOMAIN def[tid] : def[tid][k] > 0} |-> def[tid][s]]]

\* ------------------------------------------------------------- pto_tools
\* custom_planstore_constructor: a PlanStore object is returned as it is, a
\* JSON string or a dict goes through PlanStore.from_json into a new object
custom_planstore_constructor(h, data) ==
    IF data.kind = "obj"
    THEN [heap |-> h, ref |-> data.ref]
    ELSE [heap |-> Append(h, from_json(data.json)), ref |-> Len(h) + 1]

\* temp_store handed the very object
CloneAlias(h, ref) == [heap |-> h, ref |-> ref]

\* temp_store = custom_planstore_constructor(parsed_store.to_json())
CloneStore(h, ref) ==
    custom_planstore_constructor(h, [kind |-> "json", json |-> to_json(h[ref])])

\* get_global_pto_map(start_date, end_date), keys formatted by
\* get_effective_pto_map
GlobalFormatted(first, last) ==
    [k \in {isoformat(x) : x \in {y \in DOMAIN global_pto : first <= y /\ y <= last}}
        |-> global_pto[fromisoformat(k)]]

get_effective_pto_map(first, last, additional_pto) ==
    IF db_up
    THEN _merge_pto_maps(<<GlobalFormatted(first, last), additional_pto>>)
    ELSE _merge_pto_maps(<<additional_pto>>)

SetMin(S) == CHOOSE x \in S : \A y \in S : x <= y
SetMax(S) == CHOOSE x \in S : \A y \in S : y <= x

\* parsed_pto_days
ParsedDays(days) == [i \in 1..Len(days) |-> ParseDay(days[i])]

\* candidate_map = {d: [person_id] for d in parsed_pto_days}
CandidateMap(person_id, parsed) ==
    [k \in {DateKey(x) : x \in Range(parsed)} |-> {person_id}]

\* cohort_map of can_approve_pto_strict: the days are used as keys unparsed
CohortMap(cohort) ==
    [k \in UNION {Range(cohort[pid]) : pid \in DOMAIN cohort} |->
        {pid \in DOMAIN cohort : k \in Range(cohort[pid])}]

\* combined_pto of can_approve_pto
CombinedApprove(a) ==
    LET parsed == ParsedDays(a.pto_days)
        candidate_map == CandidateMap(a.person_id, parsed)
    IN  IF a.use_global_pto
        THEN get_effective_pto_map(SetMin(Range(parsed)), SetMax(Range(parsed)),
                 IF DOMAIN a.baseline_pto_map # {}
                 THEN DictUpdate(a.baseline_pto_map, candidate_map)
                 ELSE candidate_map)
        ELSE _merge_pto_maps(<<a.baseline_pto_map, candidate_map>>)

\* combined_pto of can_approve_pto_strict
CombinedStrict(a) ==
    LET parsed == ParsedDays(a.pto_days)
        candidate_map == CandidateMap(a.person_id, parsed)
        cohort_map == CohortMap(a.cohort_pto_requests)
    IN  IF a.use_global_pto
        THEN get_effective_pto_map(SetMin(Range(parsed)), SetMax(Range(parsed)),
                 DictUpdate(DictUpdate(a.baseline_pto_map, candidate_map), cohort_map))
        ELSE _merge_pto_maps(<<a.baseline_pto_map, candidate_map, cohort_map>>)

\* ------------------------------------------------------ HorizonScheduler
\* (src/src/search/_search.py)  A Person is a record of person_id, skills
\* and preworked_in_last_7, a Task a record of task_id, required_skills (a
\* dict, as the sequence of its items), start_ts and end_ts.
RECURSIVE SumSeq(_)
SumSeq(q) == IF q = <<>> THEN 0 ELSE q[1] + SumSeq(Tail(q))

Max2(a, b) == IF a >= b THEN a ELSE b
Min2(a, b) == IF a <= b THEN a ELSE b

\* self.people and self.tasks of HorizonScheduler.__init__
HzPeople(people) == sorted(people, [p \in Range(people) |-> <<Ord(p.person_id)>>])
HzTasks(tasks)   == sorted(tasks, [t \in Range(tasks) |-> <<Ord(t.task_id)>>])

\* a deque that ignores the preworked days
InitHistoryEmpty(p) == [i \in 1..6 |-> 0]

\* the deque __init__ builds for a person: the last d of six slots are 1
InitHistory(p) ==
    LET n == Max2(0, Min2(5, p.preworked_in_last_7))
    IN  [i \in 1..6 |-> IF i > 6 - n THEN 1 ELSE 0]

\* a history that never advances
AppendStuck(q, bit) == q

\* deque.append on a deque of maxlen 6
Append6(q, bit) == Tail(q) \o <<bit>>

\* sum(t.required_skills.values())
ReqSum(t) == SumSeq([i \in 1..Len(t.required_skills) |-> t.required_skills[i][2]])

\* every task counts as active on every day
AllTasksEveryDay(tasks, day_start_ts, day_end_ts) ==
    sorted(tasks, [t \in Range(tasks) |-> <<0 - ReqSum(t), t.end_ts, Ord(t.task_id)>>])

_active_tasks_for_day(tasks, day_start_ts, day_end_ts) ==
    LET active == SelectSeqBy(tasks, {t \in Range(tasks) :
                      is_active_on_day(t, day_start_ts, day_end_ts)})
    IN  sorted(active, [t \in Range(active) |->
                           <<0 - ReqSum(t), t.end_ts, Ord(t.task_id)>>])

\* _rarity_score: the sum of c / max(1, supply[s]) over the required skills,
\* as a fraction over the common denominator RarityDen
RECURSIVE Factorial(_)
Factorial(n) == IF n <= 1 THEN 1 ELSE n * Factorial(n - 1)

RarityDen(people) == Factorial(Len(people))

_rarity_score(people, t) ==
    LET supply(s) == Cardinality({i \in 1..Len(people) : s \in people[i].skills})
    IN  SumSeq([i \in 1..Len(t.required_skills) |->
                   t.required_skills[i][2] *
                       (RarityDen(people) \div Max2(1, supply(t.required_skills[i][1])))])

\* itertools.permutations, in its order
RECURSIVE permutations(_)
permutations(q) ==
    IF q = <<>> THEN << <<>> >>
    ELSE LET without(i) == SubSeq(q, 1, i - 1) \o SubSeq(q, i + 1, Len(q))
             RECURSIVE from(_)
             from(i) == IF i > Len(q) THEN <<>>
                        ELSE LET rest == permutations(without(i))
                             IN  [j \in 1..Len(rest) |-> <<q[i]>> \o rest[j]] \o from(i + 1)
         IN  from(1)

\* the first occurrence of every ordering, by its tuple of task ids
RECURSIVE Uniq(_, _)
Uniq(orderings, seen) ==
    IF orderings = <<>> THEN <<>>
    ELSE LET sig == [i \in 1..Len(orderings[1]) |-> orderings[1][i].task_id]
         IN  IF sig \in seen THEN Uniq(Tail(orderings), seen)
             ELSE <<orderings[1]>> \o Uniq(Tail(orderings), seen \cup {sig})

\* the orderings _attempt_day tries, in order
Orderings(people, tasks_today) ==
    LET rare_sorted == sorted(tasks_today, [t \in Range(tasks_today) |->
                           <<0 - _rarity_score(people, t), t.end_ts, Ord(t.task_id)>>])
        eef == sorted(tasks_today, [t \in Range(tasks_today) |->
                           <<t.end_ts, 0 - ReqSum(t), Ord(t.task_id)>>])
    IN  Uniq(<<tasks_today, rare_sorted, eef>> \o
             (IF Len(tasks_today) <= 6 THEN permutations(tasks_today) ELSE <<>>), {})

\* self.max_per_7
max_per_7 == 5

RECURSIVE SumOver(_, _)
SumOver(f, S) ==
    IF S = {} THEN 0
    ELSE LET x == CHOOSE y \in S : TRUE IN f[x] + SumOver(f, S \ {x})

\* the skills of p the task asks for, covered already or not
CoversAsked(p, missing) == {s \in p.skills : s \in DOMAIN missing}

\* covers: the skills of p still missing
Covers(p, missing) == {s \in p.skills : s \in DOMAIN missing /\ missing[s] > 0}

\* the while loop of _try_order for one task: persons are added until
\* nothing is uncovered or nobody is left who covers anything
RECURSIVE CoverTask(_, _, _, _, _)
CoverTask(people, missing, snapshot, assigned, apt) ==
    IF \A s \in DOMAIN missing : missing[s] <= 0
    THEN [ok |-> TRUE, snapshot |-> snapshot, assigned |-> assigned, apt |-> apt]
    ELSE LET avail == {p.person_id : p \in {q \in Range(people) :
                          /\ q.person_id \notin assigned
                          /\ SumSeq(snapshot[q.person_id]) + 1 <= max_per_7}}
             cands == {p \in Range(people) :
                          p.person_id \in avail /\ Covers(p, missing) # {}}
             cand_key(p) == <<Cardinality(Covers(p, missing)),
                              0 - SumOver(missing, Covers(p, missing)),
                              Ord(p.person_id)>>
         IN  IF cands = {}
             THEN [ok |-> FALSE, snapshot |-> snapshot, assigned |-> assigned,
                   apt |-> apt]
             ELSE LET best_p == CHOOSE p \in cands : \A q \in cands :
                                    q = p \/ LexLess(cand_key(q), cand_key(p))
                      best_covers == Covers(best_p, missing)
                  IN  CoverTask(people,
                          [s \in DOMAIN missing |->
                              IF s \in best_covers THEN missing[s] - 1 ELSE missing[s]],
                          [snapshot EXCEPT ![best_p.person_id] = Append6(@, 1)],
                          assigned \cup {best_p.person_id},
                          [task_id |-> apt.task_id,
                           skill_coverage |-> [s \in DOMAIN missing |->
                               IF s \in best_covers
                               THEN Append(apt.skill_coverage[s], best_p.person_id)
                               ELSE apt.skill_coverage[s]],
                           people_contributions |->
                               (best_p.person_id :> best_covers) @@
                                   apt.people_contributions])

\* the for loop of _try_order over the tasks of the ordering
RECURSIVE TryTasks(_, _, _, _, _)
TryTasks(people, order, snapshot, assigned, acc) ==
    IF order = <<>>
    THEN [ok |-> TRUE, assignments |-> acc, assigned |-> assigned]
    ELSE LET task == order[1]
             pos == {i \in 1..Len(task.required_skills) : task.required_skills[i][2] > 0}
             missing == [s \in {task.required_skills[i][1] : i \in pos} |->
                            LET i == CHOOSE j \in pos : task.required_skills[j][1] = s
                            IN  task.required_skills[i][2]]
             res == CoverTask(people, missing, snapshot, assigned,
                        [task_id |-> task.task_id,
                         skill_coverage |-> [s \in DOMAIN missing |-> <<>>],
                         people_contributions |-> <<>>])
         IN  IF ~res.ok
             THEN [ok |-> FALSE, assignments |-> acc, assigned |-> {}]
             ELSE TryTasks(people, Tail(order), res.snapshot, res.assigned,
                           Append(acc, res.apt))

\* _try_order works on a copy of history_prev6; people_contributions keeps
\* the skills a person covers as a set
_try_order(people, tasks_today, hist) == TryTasks(people, tasks_today, hist, {}, <<>>)

\* only the persons assigned get an entry
CommitAssignedOnly(people, hist, assigned) ==
    [pid \in DOMAIN hist |->
        IF pid \in assigned THEN Append6(hist[pid], 1) ELSE hist[pid]]

\* _commit_day_usage
_commit_day_usage(people, hist, assigned) ==
    [pid \in DOMAIN hist |->
        IF \E p \in Range(people) : p.person_id = pid
        THEN Append6(hist[pid], IF pid \in assigned THEN 1 ELSE 0)
        ELSE hist[pid]]

\* ---------------------------------------------------------------- actions
\* entry of generate_month_view, can_approve_pto and can_approve_pto_strict,
\* up to the week loop
Call(r) ==
    /\ pc[r] = "call"
    /\ \A q \in after[r] : pc[q] = "done"
    /\ LET a == args[r] IN
       CASE op[r] = "month" ->
              LET ps == custom_planstore_constructor(heap, a.store)
              IN  /\ heap' = ps.heap
                  /\ store' = [store EXCEPT ![r] = ps.ref]
                  /\ pto_map' = [pto_map EXCEPT ![r] =
                         IF DOMAIN a.pto_map # {} THEN _merge_pto_maps(<<a.pto_map>>)
                         ELSE <<>>]
                  /\ cur' = [cur EXCEPT ![r] = start_of_week(a.first)]
                  /\ end_wk' = [end_wk EXCEPT ![r] = a.last]
                  /\ pc' = [pc EXCEPT ![r] = "weeks"]
                  /\ UNCHANGED result
         [] op[r] = "approve" ->
              IF a.pto_days = <<>>
              THEN /\ result' = [result EXCEPT ![r] =
                          [feasible |-> TRUE, message |-> "No PTO days provided."]]
                   /\ pc' = [pc EXCEPT ![r] = "done"]
                   /\ UNCHANGED <<heap, store, pto_map, cur, end_wk>>
              ELSE LET combined_pto == CombinedApprove(a)
                   IN  /\ pto_map' = [pto_map EXCEPT ![r] = combined_pto]
                       /\ cur' = [cur EXCEPT ![r] =
                              start_of_week(SetMin(DOMAIN combined_pto))]
                       /\ end_wk' = [end_wk EXCEPT ![r] =
                              start_of_week(SetMax(DOMAIN combined_pto))]
                       /\ pc' = [pc EXCEPT ![r] = "weeks"]
                       /\ UNCHANGED <<heap, store, result>>
         [] op[r] = "strict" ->
              LET ps == custom_planstore_constructor(heap, a.base_store)
              IN  IF a.pto_days = <<>>
                  THEN /\ heap' = ps.heap
                       /\ result' = [result EXCEPT ![r] =
                              [feasible |-> TRUE, message |-> "No PTO days provided."]]
                       /\ pc' = [pc EXCEPT ![r] = "done"]
                       /\ UNCHANGED <<store, pto_map, cur, end_wk>>
                  ELSE LET combined_pto == CombinedStrict(a)
                           cl == CloneStore(ps.heap, ps.ref)
                       IN  /\ heap' = cl.heap
                           /\ store' = [store EXCEPT ![r] = cl.ref]
                           /\ pto_map' = [pto_map EXCEPT ![r] = combined_pto]
                           /\ cur' = [cur EXCEPT ![r] =
                                  start_of_week(SetMin(DOMAIN combined_pto))]
                           /\ end_wk' = [end_wk EXCEPT ![r] =
                                  start_of_week(SetMax(DOMAIN combined_pto))]
                           /\ pc' = [pc EXCEPT ![r] = "weeks"]
                           /\ UNCHANGED result
    /\ UNCHANGED <<sssVars, hzVars, inputVars, d, wk_assignments, unsatisfied, all_assignments,
                   any_unsat, solverVars>>

\* the JSON form of the assignments in the result of an admission check
ResultAssignments(r) ==
    [i \in 1..Len(all_assignments[r]) |->
        LET x == all_assignments[r][i]
        IN  IF op[r] = "approve"
            THEN [date |-> isoformat(x.day), person_id |-> x.person_id,
                  task_id |-> x.task_id, skills_contributed |-> x.skills_contributed]
            ELSE [date |-> isoformat(x.day), person_id |-> x.person_id,
                  task_id |-> x.task_id]]

\* what the operation returns when its week loop has ended
Returned(r) ==
    IF op[r] = "month"
    THEN [assignments |-> all_assignments[r], unsatisfied |-> any_unsat[r]]
    ELSE LET unsat == [i \in 1..Len(any_unsat[r]) |->
                          <<isoformat(any_unsat[r][i][1]), any_unsat[r][i][2]>>]
         IN  IF op[r] = "approve"
             THEN [feasible |-> Len(any_unsat[r]) = 0,
                   unsatisfied |-> unsat,
                   assignments |-> ResultAssignments(r)]
             ELSE [feasible |-> Len(any_unsat[r]) = 0,
                   unsatisfied |-> unsat,
                   assignments |-> ResultAssignments(r),
                   combined_pto_map |->
                       [k \in {isoformat(x) : x \in DOMAIN pto_map[r]} |->
                           pto_map[r][fromisoformat(k)]]]

\* head of the week loop: the call of schedule_week, or the return
WeekLoop(r) ==
    /\ pc[r] = "weeks"
    /\ IF cur[r] <= end_wk[r]
       THEN /\ IF op[r] = "approve"
               THEN \* _strip_cache_and_test_week: tmp_store = PlanStore()
                    /\ heap' = Append(heap, EmptyStore)
                    /\ store' = [store EXCEPT ![r] = Len(heap) + 1]
               ELSE UNCHANGED <<heap, store>>
            /\ wk_assignments' = [wk_assignments EXCEPT ![r] = <<>>]
            /\ unsatisfied' = [unsatisfied EXCEPT ![r] = <<>>]
            /\ d' = [d EXCEPT ![r] = cur[r]]
            /\ pc' = [pc EXCEPT ![r] = "days"]
            /\ UNCHANGED result
       ELSE /\ result' = [result EXCEPT ![r] = Returned(r)]
            /\ pc' = [pc EXCEPT ![r] = "done"]
            /\ UNCHANGED <<heap, store, wk_assignments, unsatisfied, d>>
    /\ UNCHANGED <<sssVars, hzVars, inputVars, pto_map, end_wk, cur, all_assignments, any_unsat,
                   solverVars>>

\* every task is taken as active on every day
EveryTask(ts, day, now_epoch) == ts

\* the tasks schedule_week hands to the DaySolver for day
ActiveTasks(ts, day, now_epoch) ==
    SelectSeqBy(ts, {t \in Range(ts) :
        is_task_active_on_day(t, day) /\ t.end_epoch >= now_epoch})

\* head of the day loop of schedule_week: construct the DaySolver of the
\* day, skip the day, or return to the caller's week loop
DayLoop(r) ==
    /\ pc[r] = "days"
    /\ IF d[r] <= cur[r] + 6
       THEN /\ LET active == ActiveTasks(args[r].tasks, d[r], args[r].now_epoch)
               IN  IF active = <<>>
                   THEN /\ d' = [d EXCEPT ![r] = d[r] + 1]
                        /\ UNCHANGED <<pc, solverVars>>
                   ELSE /\ sPeople' = [sPeople EXCEPT ![r] =
                               DaySolverPeople(args[r].people)]
                        /\ sTasks' = [sTasks EXCEPT ![r] = DaySolverTasks(active)]
                        /\ deficits' = [deficits EXCEPT ![r] = InitDeficits(active)]
                        /\ assigned_today' = [assigned_today EXCEPT ![r] = <<>>]
                        /\ stack' = [stack EXCEPT ![r] = <<>>]
                        /\ pc' = [pc EXCEPT ![r] = "solve"]
                        /\ UNCHANGED <<d, feasible>>
            /\ UNCHANGED <<cur, all_assignments, any_unsat>>
       ELSE /\ all_assignments' = [all_assignments EXCEPT ![r] = @ \o wk_assignments[r]]
            /\ any_unsat' = [any_unsat EXCEPT ![r] = @ \o unsatisfied[r]]
            /\ cur' = [cur EXCEPT ![r] = cur[r] + 7]
            /\ pc' = [pc EXCEPT ![r] = "weeks"]
            /\ UNCHANGED <<d, solverVars>>
    /\ UNCHANGED <<sssVars, hzVars, inputVars, heap, store, pto_map, end_wk, wk_assignments,
                   unsatisfied, result>>

\* the store and the PTO sets the DaySolver of process r reads
Store(r) == heap[store[r]]
PtoIds(r) == normalize_pto_map(pto_map[r])
Top(r) == stack[r][Len(stack[r])]

\* DaySolver.solve up to the first call of backtrack()
Solve(r) ==
    /\ pc[r] = "solve"
    /\ IF _all_satisfied(deficits[r])
       THEN /\ feasible' = [feasible EXCEPT ![r] = TRUE]
            /\ pc' = [pc EXCEPT ![r] = "solve_ret"]
       ELSE /\ pc' = [pc EXCEPT ![r] = "bt_enter"]
            /\ UNCHANGED feasible
    /\ UNCHANGED <<sssVars, hzVars, inputVars, heap, driverVars, sPeople, sTasks, deficits,
                   assigned_today, stack>>

\* entry of one backtrack() call: return True, or choose the next need and
\* its candidates
BtEnter(r) ==
    /\ pc[r] = "bt_enter"
    /\ LET next_need == _select_next_need(sTasks[r], deficits[r])
       IN  IF _all_satisfied(deficits[r]) \/ next_need = <<>>
           THEN /\ feasible' = [feasible EXCEPT ![r] = TRUE]
                /\ pc' = [pc EXCEPT ![r] = "bt_ret"]
                /\ UNCHANGED stack
           ELSE /\ stack' = [stack EXCEPT ![r] = Append(@,
                       [task_id |-> next_need[1],
                        skill   |-> next_need[2],
                        cands   |-> _candidates_for(sPeople[r], sTasks[r], deficits[r],
                                        assigned_today[r], PtoIds(r), Store(r), d[r],
                                        next_need[1], next_need[2]),
                        i       |-> 1,
                        changes |-> <<>>])]
                /\ pc' = [pc EXCEPT ![r] = "bt_loop"]
                /\ UNCHANGED feasible
    /\ UNCHANGED <<sssVars, hzVars, inputVars, heap, driverVars, sPeople, sTasks, deficits,
                   assigned_today>>

\* head of the candidate loop: _assign_person_to_task for the next
\* candidate, or return False when the candidates are used up
BtLoop(r) ==
    /\ pc[r] = "bt_loop"
    /\ LET f == Top(r) IN
       IF f.i > Len(f.cands)
       THEN /\ stack' = [stack EXCEPT ![r] = SubSeq(@, 1, Len(@) - 1)]
            /\ feasible' = [feasible EXCEPT ![r] = FALSE]
            /\ pc' = [pc EXCEPT ![r] = "bt_ret"]
            /\ UNCHANGED <<deficits, assigned_today>>
       ELSE LET p == f.cands[f.i]
                t == task_by_id(sTasks[r], f.task_id)
                changes == AssignChanges(p, t, deficits[r])
            IN  /\ deficits' = [deficits EXCEPT ![r] =
                       ApplyChanges(@, f.task_id, changes, -1)]
                /\ assigned_today' = [assigned_today EXCEPT ![r] =
                       DictSet(@, p, f.task_id)]
                /\ stack' = [stack EXCEPT ![r][Len(stack[r])].changes = changes]
                /\ pc' = [pc EXCEPT ![r] = "bt_check"]
                /\ UNCHANGED feasible
    /\ UNCHANGED <<sssVars, hzVars, inputVars, heap, driverVars, sPeople, sTasks>>

\* the assignment is undone but the same candidate is tried again
UndoAndRetry(r) ==
    LET f == Top(r) IN
    /\ deficits' = [deficits EXCEPT ![r] = ApplyChanges(@, f.task_id, f.changes, 1)]
    /\ assigned_today' = [assigned_today EXCEPT ![r] = DictDel(@, f.cands[f.i])]
    /\ stack' = [stack EXCEPT ![r][Len(stack[r])].changes = <<>>]
    /\ pc' = [pc EXCEPT ![r] = "bt_loop"]

\* the person is released but the deficits are left as the assignment
\* made them
UndoKeepDeficits(r) ==
    LET f == Top(r) IN
    /\ assigned_today' = [assigned_today EXCEPT ![r] = DictDel(@, f.cands[f.i])]
    /\ stack' = [stack EXCEPT ![r][Len(stack[r])].i = f.i + 1]
    /\ pc' = [pc EXCEPT ![r] = "bt_loop"]
    /\ UNCHANGED deficits

\* _undo_assignment of the current candidate of the top frame, and on to the
\* next candidate
UndoTop(r) ==
    LET f == Top(r) IN
    /\ deficits' = [deficits EXCEPT ![r] = ApplyChanges(@, f.task_id, f.changes, 1)]
    /\ assigned_today' = [assigned_today EXCEPT ![r] = DictDel(@, f.cands[f.i])]
    /\ stack' = [stack EXCEPT ![r][Len(stack[r])].i = f.i + 1]
    /\ pc' = [pc EXCEPT ![r] = "bt_loop"]

\* the re-check after the tentative assignment, then the recursive call
BtCheck(r) ==
    /\ pc[r] = "bt_check"
    /\ IF ~can_assign(Store(r), Top(r).cands[Top(r).i], d[r], TRUE)
       THEN UndoTop(r)
       ELSE /\ pc' = [pc EXCEPT ![r] = "bt_enter"]
            /\ UNCHANGED <<deficits, assigned_today, stack>>
    /\ UNCHANGED <<sssVars, hzVars, inputVars, heap, driverVars, sPeople, sTasks, feasible>>

\* a backtrack() call has returned: to solve() when it was the first call,
\* else into the candidate loop of the calling frame
BtRet(r) ==
    /\ pc[r] = "bt_ret"
    /\ IF stack[r] = <<>>
       THEN /\ pc' = [pc EXCEPT ![r] = "solve_ret"]
            /\ UNCHANGED <<deficits, assigned_today, stack>>
       ELSE IF feasible[r]
            THEN /\ stack' = [stack EXCEPT ![r] = SubSeq(@, 1, Len(@) - 1)]
                 /\ UNCHANGED <<deficits, assigned_today, pc>>
            ELSE UndoTop(r)
    /\ UNCHANGED <<sssVars, hzVars, inputVars, heap, driverVars, sPeople, sTasks, feasible>>

\* the week is given up at the first unsatisfied day
SolveRetStop(r) ==
    /\ pc[r] = "solve_ret"
    /\ IF feasible[r]
       THEN LET assignments == SolveResults(d[r], sTasks[r], assigned_today[r])
            IN  /\ heap' = [heap EXCEPT ![store[r]] = commit(@, assignments)]
                /\ wk_assignments' = [wk_assignments EXCEPT ![r] = @ \o assignments]
                /\ d' = [d EXCEPT ![r] = d[r] + 1]
                /\ UNCHANGED unsatisfied
       ELSE /\ unsatisfied' = [unsatisfied EXCEPT ![r] =
                   Append(@, <<d[r], Remaining(sTasks[r], deficits[r])>>)]
            /\ d' = [d EXCEPT ![r] = cur[r] + 7]
            /\ UNCHANGED <<heap, wk_assignments>>
    /\ pc' = [pc EXCEPT ![r] = "days"]
    /\ UNCHANGED <<sssVars, hzVars, inputVars, store, pto_map, end_wk, cur, all_assignments,
                   any_unsat, result, solverVars>>

\* solve() builds its result and schedule_week commits it or records the
\* day as unsatisfied
SolveRet(r) ==
    /\ pc[r] = "solve_ret"
    /\ IF feasible[r]
       THEN LET assignments == SolveResults(d[r], sTasks[r], assigned_today[r])
            IN  /\ heap' = [heap EXCEPT ![store[r]] = commit(@, assignments)]
                /\ wk_assignments' = [wk_assignments EXCEPT ![r] = @ \o assignments]
                /\ UNCHANGED unsatisfied
       ELSE /\ unsatisfied' = [unsatisfied EXCEPT ![r] =
                   Append(@, <<d[r], Remaining(sTasks[r], deficits[r])>>)]
            /\ UNCHANGED <<heap, wk_assignments>>
    /\ d' = [d EXCEPT ![r] = d[r] + 1]
    /\ pc' = [pc EXCEPT ![r] = "days"]
    /\ UNCHANGED <<sssVars, hzVars, inputVars, store, pto_map, end_wk, cur, all_assignments,
                   any_unsat, result, solverVars>>

Next ==
    \E r \in Procs :
        \/ Call(r)
        \/ WeekLoop(r)
        \/ DayLoop(r)
        \/ Solve(r)
        \/ BtEnter(r)
        \/ BtLoop(r)
        \/ BtCheck(r)
        \/ BtRet(r)
        \/ SolveRet(r)

\* ------------------------------------------------ HorizonScheduler actions
\* the horizon day build() is at, and its interval
HzDay == hargs.start_day + day_i - 1
HzEmptyDay == [date |-> isoformat(HzDay), assignments |-> <<>>]

\* HorizonScheduler.__init__
HzNew ==
    /\ hpc = "new"
    /\ history_prev6' = [pid \in {p.person_id : p \in Range(hargs.people)} |->
           InitHistory(CHOOSE p \in Range(hargs.people) : p.person_id = pid)]
    /\ violations' = <<>>
    /\ hdays' = <<>>
    /\ build_feasible' = TRUE
    /\ day_i' = 1
    /\ hpc' = "build"
    /\ UNCHANGED <<sssVars, serverVars, hargs, uniq, ord_k, schedule>>

\* _attempt_day up to its loop over the orderings: a future day is skipped,
\* a day without active tasks only extends the histories
HzAttempt ==
    /\ hpc = "build"
    /\ day_i <= hargs.span_days
    /\ LET iv == _day_interval(HzDay)
           tasks_today == _active_tasks_for_day(HzTasks(hargs.tasks), iv[1], iv[2])
       IN  IF (~hargs.allow_future) /\ (iv[1] > hargs.current_ts)
           THEN /\ hdays' = Append(hdays, HzEmptyDay)
                /\ day_i' = day_i + 1
                /\ UNCHANGED <<history_prev6, uniq, ord_k, hpc>>
           ELSE IF tasks_today = <<>>
           THEN /\ history_prev6' =
                       _commit_day_usage(HzPeople(hargs.people), history_prev6, {})
                /\ hdays' = Append(hdays, HzEmptyDay)
                /\ day_i' = day_i + 1
                /\ UNCHANGED <<uniq, ord_k, hpc>>
           ELSE /\ uniq' = Orderings(HzPeople(hargs.people), tasks_today)
                /\ ord_k' = 1
                /\ hpc' = "try"
                /\ UNCHANGED <<history_prev6, hdays, day_i>>
    /\ UNCHANGED <<sssVars, serverVars, hargs, violations, build_feasible, schedule>>

\* one turn of _attempt_day's loop over the orderings: _try_order, then
\* the commit of the day, the next ordering, or the violation
HzTry ==
    /\ hpc = "try"
    /\ IF ord_k > Len(uniq)
       THEN /\ violations' = Append(violations, isoformat(HzDay))
            /\ history_prev6' =
                   _commit_day_usage(HzPeople(hargs.people), history_prev6, {})
            /\ hdays' = Append(hdays, HzEmptyDay)
            /\ build_feasible' = FALSE
            /\ day_i' = day_i + 1
            /\ hpc' = "build"
            /\ UNCHANGED ord_k
       ELSE LET res == _try_order(HzPeople(hargs.people), uniq[ord_k], history_prev6)
            IN  IF res.ok
                THEN /\ history_prev6' = _commit_day_usage(HzPeople(hargs.people),
                                             history_prev6, res.assigned)
                     /\ hdays' = Append(hdays, [date |-> isoformat(HzDay),
                                                assignments |-> res.assignments])
                     /\ day_i' = day_i + 1
                     /\ hpc' = "build"
                     /\ UNCHANGED <<violations, build_feasible, ord_k>>
                ELSE /\ ord_k' = ord_k + 1
                     /\ UNCHANGED <<violations, history_prev6, hdays,
                                    build_feasible, day_i, hpc>>
    /\ UNCHANGED <<sssVars, serverVars, hargs, uniq, schedule>>

\* build() returns the DaySchedules as they were solved
HzReturnSolved ==
    /\ hpc = "build"
    /\ day_i > hargs.span_days
    /\ schedule' =
           [start_iso |-> isoformat(hargs.start_day),
            end_iso |-> isoformat(hargs.start_day + hargs.span_days),
            current_ts |-> hargs.current_ts,
            allow_future |-> hargs.allow_future,
            feasible |-> build_feasible /\ violations = <<>>,
            violations |-> violations,
            days |-> hdays]
    /\ hpc' = "done"
    /\ UNCHANGED <<sssVars, serverVars, hargs, history_prev6, violations, hdays,
                   build_feasible, day_i, uniq, ord_k>>

\* the end of build(): an infeasible horizon is returned with every
\* DaySchedule blanked
HzReturn ==
    /\ hpc = "build"
    /\ day_i > hargs.span_days
    /\ LET final_feasible == build_feasible /\ violations = <<>>
       IN  schedule' =
               [start_iso |-> isoformat(hargs.start_day),
                end_iso |-> isoformat(hargs.start_day + hargs.span_days),
                current_ts |-> hargs.current_ts,
                allow_future |-> hargs.allow_future,
                feasible |-> final_feasible,
                violations |-> violations,
                days |-> IF final_feasible THEN hdays
                         ELSE [i \in 1..Len(hdays) |->
                                  [date |-> hdays[i].date, assignments |-> <<>>]]]
    /\ hpc' = "done"
    /\ UNCHANGED <<sssVars, serverVars, hargs, history_prev6, violations, hdays,
                   build_feasible, day_i, uniq, ord_k>>

NextHorizon == HzNew \/ HzAttempt \/ HzTry \/ HzReturn

\* ------------------------------------- MultiDaySchedulerWeekCap (src/sss.py)
\* A Person is [pid, skills], skills the set of the names of its Skill
\* values; a Task is [tid, required, timebox_seconds], required a dict kept
\* as a sequence of <<skill, count>> pairs with distinct skills.  One day
\* has TicksPerDay ticks.
SECONDS_PER_DAY == TicksPerDay

\* math.ceil(x / n)
CeilDiv(x, n) == (x + n - 1) \div n

days_required(t) == Max2(1, CeilDiv(t.timebox_seconds, SECONDS_PER_DAY))

compute_horizon_days(tasks) ==
    IF tasks = <<>> THEN 0 ELSE SetMax({days_required(t) : t \in Range(tasks)})

active_tasks_on_day(tasks, day) ==
    SelectSeqBy(tasks, {t \in Range(tasks) : day < days_required(t)})

week_id_for_day(day) == day \div 7

\* skill_supply_map(people)[sk]
skill_supply_map(people, sk) ==
    Cardinality({i \in 1..Len(people) : sk \in people[i].skills})

\* uncovered of DailyAssigner.assign: (tid, skill) -> count, for the
\* positive counts of the active tasks
InitUncovered(active) ==
    LET keys == UNION {{<<t.tid, t.required[j][1]>> :
                           j \in {i \in 1..Len(t.required) : t.required[i][2] > 0}} :
                       t \in Range(active)}
    IN  [k \in keys |->
            LET t == CHOOSE u \in Range(active) : u.tid = k[1]
                j == CHOOSE i \in 1..Len(t.required) : t.required[i][1] = k[2]
            IN  t.required[j][2]]

\* the keys of task tid that are still uncovered
OpenKeys(uncovered, tid) == {k \in DOMAIN uncovered : k[1] = tid /\ uncovered[k] > 0}

total_uncovered(uncovered) == SumOver(uncovered, DOMAIN uncovered)

\* task_constrained_score(tid), times the common denominator of the
\* supplies
task_constrained_score(uncovered, people, tid) ==
    SumOver([k \in OpenKeys(uncovered, tid) |->
                uncovered[k] * (Factorial(Len(people)) \div
                                    Max2(1, skill_supply_map(people, k[2])))],
            OpenKeys(uncovered, tid))

\* gain_for_pair(p, tid): contrib
gain_for_pair(uncovered, p, tid) ==
    {sk \in p.skills : <<tid, sk>> \in OpenKeys(uncovered, tid)}

\* key = (g, cscore, task_size)
PairKey(uncovered, people, p, tid) ==
    <<Cardinality(gain_for_pair(uncovered, p, tid)),
      task_constrained_score(uncovered, people, tid),
      SumOver(uncovered, OpenKeys(uncovered, tid))>>

\* best_for_p: the index of the first active task of the largest key among
\* those person p gains on, 0 when there is none
BestTaskFor(uncovered, people, active, p) ==
    LET gains == {i \in 1..Len(active) :
                     gain_for_pair(uncovered, p, active[i].tid) # {}}
        key(i) == PairKey(uncovered, people, p, active[i].tid)
    IN  IF gains = {} THEN 0
        ELSE CHOOSE i \in gains : \A j \in gains :
                 \/ j = i
                 \/ LexLess(key(j), key(i))
                 \/ (key(j) = key(i) /\ i < j)

\* best: the first available person of the largest key, 0 when nobody
\* gains on any task
BestPerson(uncovered, people, active, available) ==
    LET some == {n \in 1..Len(available) :
                    BestTaskFor(uncovered, people, active, available[n]) # 0}
        key(n) == PairKey(uncovered, people, available[n],
                      active[BestTaskFor(uncovered, people, active, available[n])].tid)
    IN  IF some = {} THEN 0
        ELSE CHOOSE n \in some : \A m \in some :
                 \/ m = n
                 \/ LexLess(key(m), key(n))
                 \/ (key(m) = key(n) /\ n < m)

\* the while loop of DailyAssigner.assign; task_assign is kept as the
\* sequence of the picks [tid, pid, skills]
RECURSIVE AssignLoop(_, _, _, _, _)
AssignLoop(uncovered, people, active, available, task_assign) ==
    IF total_uncovered(uncovered) <= 0
    THEN [ok |-> TRUE, task_to_people |-> task_assign]
    ELSE LET n == BestPerson(uncovered, people, active, available)
         IN  IF n = 0
             THEN [ok |-> FALSE, task_to_people |-> task_assign]
             ELSE LET p == available[n]
                      tid == active[BestTaskFor(uncovered, people, active, p)].tid
                      skills == gain_for_pair(uncovered, p, tid)
                  IN  AssignLoop(
                          [k \in DOMAIN uncovered |->
                              IF k[1] = tid /\ k[2] \in skills /\ uncovered[k] > 0
                              THEN uncovered[k] - 1 ELSE uncovered[k]],
                          people, active,
                          SelectSeqBy(available, Range(available) \ {p}),
                          Append(task_assign,
                                 [tid |-> tid, pid |-> p.pid, skills |-> skills]))

\* DailyAssigner.assign: ok is FALSE where the code raises RuntimeError
DailyAssign(tasks, people, day) ==
    LET active == active_tasks_on_day(tasks, day)
    IN  IF active = <<>> THEN [ok |-> TRUE, task_to_people |-> <<>>]
        ELSE AssignLoop(InitUncovered(active), people, active, people, <<>>)

\* the horizon and the weeks of the run
CapHorizon == compute_horizon_days(cargs.tasks)
CapPids == {p.pid : p \in Range(cargs.people)}

\* MultiDaySchedulerWeekCap.__init__ and the head of schedule()
McNew ==
    /\ cpc = "new"
    /\ days_worked' = [pid \in CapPids |->
                          [w \in 0..week_id_for_day(CapHorizon) |-> 0]]
    /\ by_day' = <<>>
    /\ cday' = 0
    /\ raised' = "none"
    /\ cpc' = "loop"
    /\ UNCHANGED <<serverVars, hzVars, weekVars, cargs>>

\* everybody, at the cap or not
everybody(wk) == cargs.people

\* the people below the cap in the week of the day
eligible(wk) ==
    SelectSeqBy(cargs.people,
                {p \in Range(cargs.people) : days_worked[p.pid][wk] < cargs.weekly_cap})

\* the day's counters: one more day for everybody used today
CountDay(wk, used_today) ==
    [pid \in CapPids |->
        IF pid \in used_today
        THEN [days_worked[pid] EXCEPT ![wk] = @ + 1]
        ELSE days_worked[pid]]

\* one day of schedule(): the eligible people, the daily assignment, the
\* counters and the sanity check
McDay ==
    /\ cpc = "loop"
    /\ cday < CapHorizon
    /\ LET wk == week_id_for_day(cday)
           day_assign == DailyAssign(cargs.tasks, eligible(wk), cday)
           used_today == {day_assign.task_to_people[i].pid :
                             i \in 1..Len(day_assign.task_to_people)}
       IN  IF ~day_assign.ok
           THEN /\ raised' = "RuntimeError"
                /\ cpc' = "done"
                /\ UNCHANGED <<days_worked, by_day, cday>>
           ELSE /\ days_worked' = CountDay(wk, used_today)
                /\ by_day' = Append(by_day, day_assign.task_to_people)
                /\ IF \E pid \in CapPids :
                          CountDay(wk, used_today)[pid][wk] > cargs.weekly_cap
                   THEN /\ raised' = "AssertionError"
                        /\ cpc' = "done"
                        /\ UNCHANGED cday
                   ELSE /\ cday' = cday + 1
                        /\ UNCHANGED <<raised, cpc>>
    /\ UNCHANGED <<serverVars, hzVars, weekVars, cargs>>

\* schedule() returns sched
McReturn ==
    /\ cpc = "loop"
    /\ cday >= CapHorizon
    /\ cpc' = "done"
    /\ UNCHANGED <<serverVars, hzVars, weekVars, cargs, cday, days_worked, by_day,
                   raised>>

NextCap == McNew \/ McDay \/ McReturn

\* --------------------------------------- WeeklyScheduler (src/src/sss.py)
\* Time of day is local time of _TZ, a zone with daylight saving time.
\* Local midnight of day n is wall-clock tick n * TicksPerDay; summer time
\* starts on the Sunday SpringDay and ends on the Sunday FallDay, so the
\* first of these two days is one tick short and the second one tick long.
SpringDay == 6
FallDay == 13

\* _TZ.utcoffset at local midnight of a day, in ticks above winter time
utcoffset(day) == IF day > SpringDay /\ day <= FallDay THEN 1 ELSE 0

\* A datetime at local midnight is [day, zoned, offset]: zoned when its
\* tzinfo is _TZ, else of the fixed offset it was parsed with.
Zoned(day) == [day |-> day, zoned |-> TRUE, offset |-> utcoffset(day)]

\* datetime.timestamp()
timestamp(dt) == dt.day * TicksPerDay - dt.offset

\* dt + timedelta(days=n): wall-clock arithmetic; a zoned datetime takes the
\* offset of the zone on the new day, a fixed-offset one keeps its offset
plus_days(dt, n) ==
    IF dt.zoned THEN Zoned(dt.day + n)
    ELSE [day |-> dt.day + n, zoned |-> FALSE, offset |-> dt.offset]

\* datetime.isoformat(): the local date and time and the numeric offset
datetime_isoformat(dt) == [day |-> dt.day, offset |-> dt.offset]

\* datetime.fromisoformat(): a datetime of the fixed offset of the string
datetime_fromisoformat(str) == [day |-> str.day, zoned |-> FALSE, offset |-> str.offset]

\* datetime.fromtimestamp(ts, _TZ) with the time of day set to 00:00: the
\* local day the instant falls in
local_midnight(ts) ==
    Zoned(CHOOSE n \in ((ts \div TicksPerDay) - 1)..((ts \div TicksPerDay) + 1) :
              timestamp(Zoned(n)) <= ts /\ ts < timestamp(Zoned(n + 1)))

\* _week_bounds_from_ts: start (day 0 is a Monday)
_week_bounds_from_ts(current_ts) ==
    plus_days(local_midnight(current_ts), 0 - (local_midnight(current_ts).day % 7))

\* _day_interval of src/src/sss.py, on a datetime
day_interval_dt(dt) == <<timestamp(dt), timestamp(plus_days(dt, 1))>>

\* self.people and self.tasks of WeeklyScheduler.__init__
WsPeople(people) == sorted(people, [p \in Range(people) |-> <<Ord(p.person_id)>>])
WsTasks(tasks)   == sorted(tasks, [t \in Range(tasks) |-> <<Ord(t.task_id)>>])

\* self.max_days_per_person
max_days_per_person == 5

\* the test of _attempt_day_with_backtracking for a future day
future_day(day_start_ts, current_ts) == day_start_ts > current_ts

\* the while loop of _try_order for one task
RECURSIVE WsCoverTask(_, _, _, _, _)
WsCoverTask(people, missing, available, local_used, apt) ==
    IF \A s \in DOMAIN missing : missing[s] <= 0
    THEN [ok |-> TRUE, available |-> available, local_used |-> local_used, apt |-> apt]
    ELSE LET cands == {p \in Range(people) :
                          p.person_id \in available /\ Covers(p, missing) # {}}
             cand_key(p) == <<Cardinality(Covers(p, missing)),
                              0 - SumOver(missing, Covers(p, missing)),
                              Ord(p.person_id)>>
         IN  IF cands = {}
             THEN [ok |-> FALSE, available |-> available, local_used |-> local_used,
                   apt |-> apt]
             ELSE LET best_p == CHOOSE p \in cands : \A q \in cands :
                                    q = p \/ LexLess(cand_key(q), cand_key(p))
                      best_covers == Covers(best_p, missing)
                  IN  WsCoverTask(people,
                          [s \in DOMAIN missing |->
                              IF s \in best_covers THEN missing[s] - 1 ELSE missing[s]],
                          available \ {best_p.person_id},
                          [local_used EXCEPT ![best_p.person_id] = @ + 1],
                          [task_id |-> apt.task_id,
                           skill_coverage |-> [s \in DOMAIN missing |->
                               IF s \in best_covers
                               THEN Append(apt.skill_coverage[s], best_p.person_id)
                               ELSE apt.skill_coverage[s]],
                           people_contributions |->
                               (best_p.person_id :> best_covers) @@
                                   apt.people_contributions])

\* the for loop of _try_order over the tasks of the ordering
RECURSIVE WsTryTasks(_, _, _, _, _)
WsTryTasks(people, order, available, local_used, acc) ==
    IF order = <<>>
    THEN [ok |-> TRUE, assignments |-> acc, used |-> local_used]
    ELSE LET task == order[1]
             pos == {i \in 1..Len(task.required_skills) : task.required_skills[i][2] > 0}
             missing == [s \in {task.required_skills[i][1] : i \in pos} |->
                            LET i == CHOOSE j \in pos : task.required_skills[j][1] = s
                            IN  task.required_skills[i][2]]
             res == WsCoverTask(people, missing, available, local_used,
                        [task_id |-> task.task_id,
                         skill_coverage |-> [s \in DOMAIN missing |-> <<>>],
                         people_contributions |-> <<>>])
         IN  IF ~res.ok
             THEN [ok |-> FALSE, assignments |-> acc, used |-> local_used]
             ELSE WsTryTasks(people, Tail(order), res.available, res.local_used,
                             Append(acc, res.apt))

\* WeeklyScheduler._try_order; used is person_days_used with the delta
\* applied
WsTryOrder(people, tasks_today, used) ==
    WsTryTasks(people, tasks_today,
               {p.person_id : p \in {q \in Range(people) :
                                        used[q.person_id] < max_days_per_person}},
               used, <<>>)

\* the loop of _attempt_day_with_backtracking over the orderings
RECURSIVE FirstFit(_, _, _)
FirstFit(people, unique_orders, used) ==
    IF unique_orders = <<>>
    THEN [ok |-> FALSE, assignments |-> <<>>, used |-> used]
    ELSE LET res == WsTryOrder(people, unique_orders[1], used)
         IN  IF res.ok THEN res ELSE FirstFit(people, Tail(unique_orders), used)

\* _attempt_day_with_backtracking
_attempt_day_with_backtracking(people, tasks, used, current_ts, day_start_ts, day_end_ts) ==
    IF future_day(day_start_ts, current_ts)
    THEN [ok |-> TRUE, assignments |-> <<>>, used |-> used]
    ELSE FirstFit(people,
                  Orderings(people, _active_tasks_for_day(tasks, day_start_ts, day_end_ts)),
                  used)

RECURSIVE Flat(_)
\* the concatenation of a list of lists
Flat(q) == IF q = <<>> THEN <<>> ELSE q[1] \o Flat(Tail(q))

\* dict lookup {x.id: x for x in q}.get(id): the last element of the id, or
\* 0 for None, as an index
LastIndex(ids, id) ==
    IF \E i \in 1..Len(ids) : ids[i] = id
    THEN CHOOSE i \in 1..Len(ids) : ids[i] = id /\ \A j \in (i + 1)..Len(ids) : ids[j] # id
    ELSE 0

\* the day intervals validate_schedule works with
ValidateInterval(ws, i) ==
    day_interval_dt(plus_days(datetime_fromisoformat(ws.week_start_iso), i - 1))

\* seen at the end of a day of validate_schedule
Seen(people, tasks, day) ==
    UNION {{pid \in DOMAIN day.assignments[k].people_contributions :
               \E p \in Range(people) : p.person_id = pid} :
           k \in {j \in 1..Len(day.assignments) :
                     \E t \in Range(tasks) : t.task_id = day.assignments[j].task_id}}

\* the errors validate_schedule appends for day i of ws.days; an error is
\* kept as [kind, date, what]
ValidateDay(people, tasks, ws, i) ==
    LET day == ws.days[i]
        iv == ValidateInterval(ws, i)
        err(kind, what) == [kind |-> kind, date |-> day.date, what |-> what]
        apt_ids == [k \in 1..Len(day.assignments) |-> day.assignments[k].task_id]
        task_ids == [k \in 1..Len(tasks) |-> tasks[k].task_id]
        person_ids == [k \in 1..Len(people) |-> people[k].person_id]
        required(t) ==
            IF is_active_on_day(t, iv[1], iv[2]) /\ ~(iv[1] > ws.current_ts)
            THEN IF LastIndex(apt_ids, t.task_id) = 0
                 THEN <<err("missing", t.task_id)>>
                 ELSE LET apt == day.assignments[LastIndex(apt_ids, t.task_id)]
                          assigned(s) == IF s \in DOMAIN apt.skill_coverage
                                         THEN Len(apt.skill_coverage[s]) ELSE 0
                      IN  Flat([k \in 1..Len(t.required_skills) |->
                                   IF t.required_skills[k][2] > 0 /\
                                      assigned(t.required_skills[k][1]) #
                                          t.required_skills[k][2]
                                   THEN <<err("count", t.task_id)>> ELSE <<>>])
            ELSE <<>>
        contributed(k) ==
            LET apt == day.assignments[k]
                pids == sorted(SetToSeq(DOMAIN apt.people_contributions),
                               [pid \in DOMAIN apt.people_contributions |-> <<Ord(pid)>>])
                earlier == UNION {DOMAIN day.assignments[j].people_contributions :
                                     j \in {m \in 1..(k - 1) :
                                               LastIndex(task_ids, apt_ids[m]) # 0}}
                person(pid) ==
                    IF LastIndex(person_ids, pid) = 0
                    THEN <<err("unknown person", pid)>>
                    ELSE (IF pid \in earlier
                          THEN <<err("multiple tasks", pid)>> ELSE <<>>)
                         \o (IF apt.people_contributions[pid] \subseteq
                                   people[LastIndex(person_ids, pid)].skills
                             THEN <<>> ELSE <<err("lacks skill", pid)>>)
            IN  IF LastIndex(task_ids, apt.task_id) = 0
                THEN <<err("unknown task", apt.task_id)>>
                ELSE (IF is_active_on_day(tasks[LastIndex(task_ids, apt.task_id)],
                                          iv[1], iv[2])
                      THEN <<>> ELSE <<err("inactive", apt.task_id)>>)
                     \o Flat([n \in 1..Len(pids) |-> person(pids[n])])
    IN  Flat([k \in 1..Len(tasks) |-> required(tasks[k])])
        \o Flat([k \in 1..Len(day.assignments) |-> contributed(k)])
        \o (IF iv[1] > ws.current_ts /\ day.assignments # <<>>
            THEN <<err("after current_ts", "")>> ELSE <<>>)

\* validate_schedule(people, tasks, ws)
validate_schedule(people, tasks, ws) ==
    LET weekly_use(pid) ==
            Cardinality({i \in 1..Len(ws.days) : pid \in Seen(people, tasks, ws.days[i])})
        pids == [k \in 1..Len(people) |-> people[k].person_id]
        errors ==
            Flat([i \in 1..Len(ws.days) |-> ValidateDay(people, tasks, ws, i)])
            \o Flat([k \in 1..Len(pids) |->
                        IF LastIndex(pids, pids[k]) = k /\ weekly_use(pids[k]) > 5
                        THEN <<[kind |-> "weekly cap",
                                date |-> isoformat(ws.week_start_iso.day),
                                what |-> pids[k]]>>
                        ELSE <<>>])
    IN  [ok |-> errors = <<>>, errors |-> errors]

\* the day build() is at, as a datetime
week_days(i) == plus_days(_week_bounds_from_ts(wargs.current_ts), i - 1)

\* WeeklyScheduler.__init__ and the head of build()
WkNew ==
    /\ wpc = "new"
    /\ person_days_used' = [pid \in {p.person_id : p \in Range(wargs.people)} |-> 0]
    /\ wviolations' = <<>>
    /\ wdays' = <<>>
    /\ wfeasible' = TRUE
    /\ wday' = 1
    /\ wpc' = "build"
    /\ UNCHANGED <<serverVars, hzVars, capVars, wargs, week, verdict>>

\* one turn of build()'s loop over week_days
WkDay ==
    /\ wpc = "build"
    /\ wday <= 7
    /\ LET iv == day_interval_dt(week_days(wday))
           res == _attempt_day_with_backtracking(WsPeople(wargs.people),
                      WsTasks(wargs.tasks), person_days_used, wargs.current_ts,
                      iv[1], iv[2])
           date_str == isoformat(week_days(wday).day)
       IN  /\ wdays' = Append(wdays, [date |-> date_str, assignments |-> res.assignments])
           /\ person_days_used' = res.used
           /\ wviolations' = IF res.ok THEN wviolations
                             ELSE Append(wviolations,
                                         [kind |-> "day", date |-> date_str, what |-> ""])
           /\ wfeasible' = (wfeasible /\ res.ok)
    /\ wday' = wday + 1
    /\ UNCHANGED <<serverVars, hzVars, capVars, wargs, wpc, week, verdict>>

\* the weekly cap check of build() and the WeekSchedule it returns
WkReturn ==
    /\ wpc = "build"
    /\ wday > 7
    /\ LET over == sorted(SetToSeq({pid \in DOMAIN person_days_used :
                                       person_days_used[pid] > max_days_per_person}),
                          [pid \in DOMAIN person_days_used |-> <<Ord(pid)>>])
           all == wviolations \o
                      [k \in 1..Len(over) |->
                          [kind |-> "weekly cap",
                           date |-> isoformat(week_days(1).day), what |-> over[k]]]
       IN  /\ wviolations' = all
           /\ wfeasible' = (wfeasible /\ over = <<>>)
           /\ week' = [week_start_iso |-> datetime_isoformat(week_days(1)),
                       week_end_iso |-> datetime_isoformat(week_days(8)),
                       current_ts |-> wargs.current_ts,
                       feasible |-> (wfeasible /\ over = <<>>) /\ all = <<>>,
                       violations |-> all,
                       days |-> wdays]
    /\ wpc' = "built"
    /\ UNCHANGED <<serverVars, hzVars, capVars, wargs, wday, person_days_used, wdays,
                   verdict>>

\* validate_schedule on the people and tasks given to the scheduler and on
\* the WeekSchedule build() returned
WkValidate ==
    /\ wpc = "built"
    /\ verdict' = validate_schedule(wargs.people, wargs.tasks, week)
    /\ wpc' = "done"
    /\ UNCHANGED <<serverVars, hzVars, capVars, wargs, wday, person_days_used,
                   wviolations, wdays, wfeasible, week>>

NextWeek == WkNew \/ WkDay \/ WkReturn \/ WkValidate

\* --------------------------------------------------------- cache_schedule
\* the pending days replace the base days instead of joining them
CacheOverwrite(st, assignments, pto, pending_pto, accept_pto) ==
    LET base == normalize_pto_map(pto)
        pend == normalize_pto_map(pending_pto)
        merged == IF accept_pto /\ DOMAIN pending_pto # {}
                  THEN DictUpdate(base, pend) ELSE base
    IN  [store |-> commit(st, assignments),
         pto_map |-> [k \in DOMAIN merged |->
                         sorted(SetToSeq(merged[k]), [p \in merged[k] |-> <<Ord(p)>>])]]

\* cache_schedule(store, assignments, pto_map, pending_pto, accept_pto): the
\* store after the commit and the map returned
cache_schedule(st, assignments, pto, pending_pto, accept_pto) ==
    LET base == normalize_pto_map(pto)
        pend == normalize_pto_map(pending_pto)
        merged == IF accept_pto /\ DOMAIN pending_pto # {}
                  THEN [k \in DOMAIN base \cup DOMAIN pend |->
                           (IF k \in DOMAIN base THEN base[k] ELSE {})
                               \cup (IF k \in DOMAIN pend THEN pend[k] ELSE {})]
                  ELSE base
    IN  [store |-> commit(st, assignments),
         pto_map |-> [k \in DOMAIN merged |->
                         sorted(SetToSeq(merged[k]), [p \in merged[k] |-> <<Ord(p)>>])]]

\* a call of cache_schedule by process r on the store object args[r].store
CacheSchedule(r) ==
    /\ pc[r] = "call"
    /\ op[r] = "cache"
    /\ LET a == args[r]
           res == cache_schedule(heap[a.store], a.assignments, a.pto_map,
                                 a.pending_pto, a.accept_pto)
       IN  /\ heap' = [heap EXCEPT ![a.store] = res.store]
           /\ result' = [result EXCEPT ![r] = res.pto_map]
    /\ pc' = [pc EXCEPT ![r] = "done"]
    /\ UNCHANGED <<sssVars, hzVars, inputVars, store, pto_map, end_wk, cur, d,
                   wk_assignments, unsatisfied, all_assignments, any_unsat, solverVars>>

NextCache == \E r \in Procs : CacheSchedule(r)

\* ----------------------------------------------------------------- inputs
TaskName == [tid \in TaskIds |-> IF tid = "t1" THEN "Y" ELSE "X"]

\* a Task active from day first_day to day last_day (to the last tick of it)
MkTask(tid, first_day, last_day, req) ==
    [task_id |-> tid, name |-> TaskName[tid],
     start_epoch |-> first_day * TicksPerDay,
     end_epoch |-> last_day * TicksPerDay + (TicksPerDay - 1),
     daily_requirements |-> req]

NoArgs == [people |-> <<>>, tasks |-> <<>>, now_epoch |-> 0]
AllPeople == <<"p1", "p2", "p3">>

\* days lo .. lo+n-1
Run(lo, n) == {x \in lo..(lo + n - 1) : TRUE}

\* MultiDaySchedulerWeekCap is not run
CapIdle ==
    /\ cargs = <<>>
    /\ cpc = "off"
    /\ cday = 0
    /\ days_worked = <<>>
    /\ by_day = <<>>
    /\ raised = "none"

\* WeeklyScheduler is not run
WeekIdle ==
    /\ wargs = <<>>
    /\ wpc = "off"
    /\ wday = 0
    /\ person_days_used = <<>>
    /\ wviolations = <<>>
    /\ wdays = <<>>
    /\ wfeasible = TRUE
    /\ week = <<>>
    /\ verdict = <<>>

\* no scheduler of sss.py is run
SssIdle == CapIdle /\ WeekIdle

\* no HorizonScheduler is run
HzIdle ==
    /\ hargs = <<>>
    /\ hpc = "off"
    /\ history_prev6 = <<>>
    /\ violations = <<>>
    /\ hdays = <<>>
    /\ build_feasible = TRUE
    /\ day_i = 0
    /\ uniq = <<>>
    /\ ord_k = 0
    /\ schedule = <<>>

\* every variable of the server but the inputs, before any process has run
BootState(ops, h) ==
    /\ heap = h
    /\ pc = [r \in Procs |-> IF ops[r] = "none" THEN "done" ELSE "call"]
    /\ store = [r \in Procs |-> 0]
    /\ pto_map = [r \in Procs |-> <<>>]
    /\ end_wk = [r \in Procs |-> 0]
    /\ cur = [r \in Procs |-> 0]
    /\ d = [r \in Procs |-> 0]
    /\ wk_assignments = [r \in Procs |-> <<>>]
    /\ unsatisfied = [r \in Procs |-> <<>>]
    /\ all_assignments = [r \in Procs |-> <<>>]
    /\ any_unsat = [r \in Procs |-> <<>>]
    /\ sPeople = [r \in Procs |-> <<>>]
    /\ sTasks = [r \in Procs |-> <<>>]
    /\ deficits = [r \in Procs |-> <<>>]
    /\ assigned_today = [r \in Procs |-> <<>>]
    /\ stack = [r \in Procs |-> <<>>]
    /\ feasible = [r \in Procs |-> FALSE]
    /\ result = [r \in Procs |-> <<>>]

\* the calls are made one after the other
BootServer(ops, h) ==
    /\ after = [r \in Procs |-> {q \in Procs : q < r}]
    /\ BootState(ops, h)

Boot(ops, h) == HzIdle /\ SssIdle /\ BootServer(ops, h)

\* one month view of a single week: any skills, one or two tasks with any
\* requirement counts up to MaxReq, somebody on PTO or nobody
InitCoverage ==
    \E s1 \in SUBSET Skills, s2 \in SUBSET Skills, s3 \in {{"a"}, {"a", "b"}},
       c1 \in 0..MaxReq, c2 \in 0..MaxReq,
       second \in {<<>>, <<<<"a", 1>>>>, <<<<"b", 1>>>>, <<<<"b", 1>>, <<"a", 1>>>>},
       off \in {{}, {"p1"}}, seed \in {EmptyStore} :
        /\ skillsOf = [p \in Persons |->
                          IF p = "p1" THEN s1 ELSE IF p = "p2" THEN s2 ELSE s3]
        /\ global_pto = <<>>
        /\ db_up = TRUE
        /\ op = [r \in Procs |-> IF r = 1 THEN "month" ELSE "none"]
        /\ args = [r \in Procs |->
              IF r = 1
              THEN [people |-> AllPeople,
                    tasks |-> <<MkTask("t1", 0, 1, <<<<"a", c1>>, <<"b", c2>>>>)>> \o
                              (IF second = <<>> THEN <<>>
                               ELSE <<MkTask("t2", 1, 1, second)>>),
                    now_epoch |-> 0,
                    store |-> [kind |-> "obj", ref |-> 1],
                    pto_map |-> IF off = {} THEN <<>>
                                ELSE [k \in {DateKey(0)} |-> off],
                    first |-> 0, last |-> 6]
              ELSE NoArgs]
        /\ Boot(op, <<seed>>)

\* a month view of MaxWeeks weeks over a store that already holds a run of
\* days of p1, before, inside or behind the weeks scheduled
InitCap ==
    \E lo \in -5..(7 * MaxWeeks - 1), n \in 0..5, plo \in {0, 5}, pn \in {0, 3},
       first \in {0, 3} :
      \E seed \in {[p \in Persons |-> IF p = "p1" THEN Run(lo, n) ELSE {}]} :
        /\ n = 0 => lo = 0
        /\ pn = 0 => plo = 0
        /\ skillsOf = [p \in Persons |-> IF p = "p3" THEN {"b"} ELSE {"a"}]
        /\ global_pto = <<>>
        /\ db_up = TRUE
        /\ op = [r \in Procs |-> IF r = 1 THEN "month" ELSE "none"]
        /\ args = [r \in Procs |->
              IF r = 1
              THEN [people |-> AllPeople,
                    tasks |-> <<MkTask("t1", 0, 7 * MaxWeeks - 1, <<<<"a", 1>>>>)>>,
                    now_epoch |-> 0,
                    store |-> [kind |-> "obj", ref |-> 1],
                    pto_map |-> [k \in {isoformat(x) : x \in Run(plo, pn)} |-> {"p2"}],
                    first |-> first, last |-> 7 * MaxWeeks - 1]
              ELSE NoArgs]
        /\ Boot(op, <<seed>>)

Init == InitCoverage \/ InitCap

Spec == Init /\ [][Next]_vars

\* one month view of a single week in which every requirement is asked for
\* and the solver has to search: p3 holds both skills, the others any; the
\* second task has a display name of its own or that of the first
InitSearch ==
    \E s1 \in SUBSET Skills, s2 \in SUBSET Skills, c1 \in 1..MaxReq,
       second \in {<<>>, <<<<"b", 1>>, <<"a", 1>>>>}, name2 \in {"X", "Y"},
       seed \in {EmptyStore} :
        /\ skillsOf = [p \in Persons |->
                          IF p = "p1" THEN s1 ELSE IF p = "p2" THEN s2 ELSE {"a", "b"}]
        /\ global_pto = <<>>
        /\ db_up = TRUE
        /\ op = [r \in Procs |-> IF r = 1 THEN "month" ELSE "none"]
        /\ args = [r \in Procs |->
              IF r = 1
              THEN [people |-> AllPeople,
                    tasks |-> <<MkTask("t1", 0, 1, <<<<"a", c1>>, <<"b", 1>>>>)>> \o
                              (IF second = <<>> THEN <<>>
                               ELSE <<[MkTask("t2", 1, 1, second) EXCEPT !.name = name2]>>),
                    now_epoch |-> 0,
                    store |-> [kind |-> "obj", ref |-> 1],
                    pto_map |-> <<>>,
                    first |-> 0, last |-> 6]
              ELSE NoArgs]
        /\ Boot(op, <<seed>>)

SpecSearch == InitSearch /\ [][Next]_vars

\* the interpreter runs the next statement of a call that has not returned:
\* weak fairness of every step of process r. BtEnter and SolveRet can be
\* taken exactly at their positions, so their fairness is written with the
\* position in the place of ENABLED.
Runs(r) ==
    /\ WF_vars(Call(r) \/ WeekLoop(r) \/ DayLoop(r) \/ Solve(r) \/ BtLoop(r) \/ BtCheck(r) \/ BtRet(r))
    /\ []<>(pc[r] # "bt_enter") \/ []<><<BtEnter(r)>>_vars
    /\ []<>(pc[r] # "solve_ret") \/ []<><<SolveRet(r)>>_vars

\* the month views of InitSearch with every call running to its end
SpecLive == SpecSearch /\ \A r \in Procs : Runs(r)

Reverse(q) == [i \in 1..Len(q) |-> q[Len(q) + 1 - i]]

\* the same month view twice, one call after the other, each on its own
\* store parsed from the same JSON; the second call is given the people in
\* another order and the tasks reversed
InitDet ==
    \E s1 \in SUBSET Skills, s2 \in SUBSET Skills, s3 \in {{"a"}, {"a", "b"}},
       c1 \in 0..MaxReq, c2 \in 0..MaxReq,
       second \in {<<>>, <<<<"a", 1>>>>, <<<<"b", 1>>>>, <<<<"b", 1>>, <<"a", 1>>>>},
       people2 \in {<<"p3", "p2", "p1">>, <<"p3", "p1", "p2">>} :
      \E tasks1 \in {<<MkTask("t1", 0, 1, <<<<"a", c1>>, <<"b", c2>>>>)>> \o
                       (IF second = <<>> THEN <<>> ELSE <<MkTask("t2", 1, 1, second)>>)} :
        /\ skillsOf = [p \in Persons |->
                          IF p = "p1" THEN s1 ELSE IF p = "p2" THEN s2 ELSE s3]
        /\ global_pto = <<>>
        /\ db_up = TRUE
        /\ op = [r \in Procs |-> "month"]
        /\ args = [r \in Procs |->
              [people |-> IF r = 1 THEN AllPeople ELSE people2,
               tasks |-> IF r = 1 THEN tasks1 ELSE Reverse(tasks1),
               now_epoch |-> 0,
               store |-> [kind |-> "json",
                          json |-> to_json([p \in Persons |->
                                               IF p = "p2" THEN {-1} ELSE {}])],
               pto_map |-> <<>>,
               first |-> 0, last |-> 6]]
        /\ Boot(op, <<>>)

SpecDet == InitDet /\ [][Next]_vars

\* an admission check of one week whose task is active on days 1 and 2
\* only: every way of keying the baseline, the candidate days and the
\* cohort, with and without the database
InitAdmitMerge ==
    \E o \in {"approve", "strict"}, cand \in {"p1", "p2"},
       days \in {<<>>, <<DateKey(1), isoformat(2)>>, <<isoformat(1)>>},
       base \in {<<>>, [k \in {DateKey(1)} |-> {"p1"}],
                 [k \in {isoformat(1)} |-> {"p1"}],
                 [k \in {DateKey(3)} |-> {"p3"}]},
       cohort \in {<<>>, [q \in {"p3"} |-> <<isoformat(1)>>],
                   [q \in {"p3"} |-> <<DateKey(2)>>]},
       use_global \in BOOLEAN,
       db \in {<<TRUE, <<>>>>, <<TRUE, [k \in {2} |-> {"p1"}]>>,
               <<FALSE, [k \in {2} |-> {"p1"}]>>},
       seed \in {EmptyStore, [p \in Persons |-> IF p = "p3" THEN Run(-3, 4) ELSE {}]} :
        /\ o = "approve" => (cohort = <<>> /\ seed = EmptyStore)
        /\ skillsOf = [p \in Persons |-> IF p = "p2" THEN {"b"} ELSE {"a"}]
        /\ global_pto = db[2]
        /\ db_up = db[1]
        /\ op = [r \in Procs |-> IF r = 1 THEN o ELSE "none"]
        /\ args = [r \in Procs |->
              IF r = 1
              THEN [people |-> AllPeople,
                    tasks |-> <<MkTask("t1", 1, 2, <<<<"a", 1>>, <<"b", 1>>>>)>>,
                    now_epoch |-> 0,
                    person_id |-> cand,
                    pto_days |-> days,
                    base_store |-> [kind |-> "obj", ref |-> 1],
                    baseline_pto_map |-> base,
                    cohort_pto_requests |-> cohort,
                    use_global_pto |-> use_global]
              ELSE NoArgs]
        /\ Boot(op, <<seed>>)

\* an admission check whose candidate days reach into the following weeks,
\* with one task active on every day
InitAdmitSpan ==
    \E o \in {"approve", "strict"}, plo \in {2, 5}, pn \in {3, 7},
       lo \in {-4, 0, 4}, n \in {0, 4} :
      \E seed \in {[p \in Persons |-> IF p = "p1" THEN Run(lo, n) ELSE {}]} :
        /\ n = 0 => lo = 0
        /\ skillsOf = [p \in Persons |-> IF p = "p3" THEN {"b"} ELSE {"a"}]
        /\ global_pto = <<>>
        /\ db_up = TRUE
        /\ op = [r \in Procs |-> IF r = 1 THEN o ELSE "none"]
        /\ args = [r \in Procs |->
              IF r = 1
              THEN [people |-> AllPeople,
                    tasks |-> <<MkTask("t1", 0, 7 * MaxWeeks - 1, <<<<"a", 1>>>>)>>,
                    now_epoch |-> 0,
                    person_id |-> "p2",
                    pto_days |-> [i \in 1..pn |-> isoformat(plo + i - 1)],
                    base_store |-> [kind |-> "obj", ref |-> 1],
                    baseline_pto_map |-> <<>>,
                    cohort_pto_requests |-> <<>>,
                    use_global_pto |-> FALSE]
              ELSE NoArgs]
        /\ Boot(op, <<seed>>)

\* an admission check whose candidate days lie in the first week while the
\* baseline map or a cohort request names a day of the following week
InitAdmitWeeks ==
    \E o \in {"approve", "strict"}, use_global \in BOOLEAN,
       days \in {<<isoformat(1)>>, <<DateKey(2), DateKey(4)>>},
       base \in {<<>>, [k \in {DateKey(8)} |-> {"p1"}],
                 [k \in {isoformat(9)} |-> {"p3"}]},
       cohort \in {<<>>, [q \in {"p3"} |-> <<isoformat(7)>>]},
       seed \in {EmptyStore} :
        /\ o = "approve" => cohort = <<>>
        /\ skillsOf = [p \in Persons |-> IF p = "p3" THEN {"b"} ELSE {"a"}]
        /\ global_pto = <<>>
        /\ db_up = TRUE
        /\ op = [r \in Procs |-> IF r = 1 THEN o ELSE "none"]
        /\ args = [r \in Procs |->
              IF r = 1
              THEN [people |-> AllPeople,
                    tasks |-> <<MkTask("t1", 0, 7 * MaxWeeks - 1, <<<<"a", 1>>>>)>>,
                    now_epoch |-> 0,
                    person_id |-> "p2",
                    pto_days |-> days,
                    base_store |-> [kind |-> "obj", ref |-> 1],
                    baseline_pto_map |-> base,
                    cohort_pto_requests |-> cohort,
                    use_global_pto |-> use_global]
              ELSE NoArgs]
        /\ Boot(op, <<seed>>)

InitAdmit == InitAdmitMerge \/ InitAdmitSpan \/ InitAdmitWeeks

SpecAdmit == InitAdmit /\ [][Next]_vars

\* one month view of a single week with no task or one task whose first
\* and last tick fall anywhere in the first days of the week, asked at
\* different times, for three persons or for nobody; no person holds skill b
InitEdge ==
    \E start \in 0..(3 * TicksPerDay), len \in 1..(2 * TicksPerDay),
       now \in {0, TicksPerDay + 1, 4 * TicksPerDay},
       skill \in Skills, given \in {<<>>, AllPeople}, none \in BOOLEAN,
       seed \in {EmptyStore} :
        /\ none => (start = 0 /\ len = 1 /\ skill = "a")
        /\ skillsOf = [p \in Persons |-> IF p = "p3" THEN {} ELSE {"a"}]
        /\ global_pto = <<>>
        /\ db_up = TRUE
        /\ op = [r \in Procs |-> IF r = 1 THEN "month" ELSE "none"]
        /\ args = [r \in Procs |->
              IF r = 1
              THEN [people |-> given,
                    tasks |-> IF none THEN <<>>
                              ELSE <<[task_id |-> "t1", name |-> TaskName["t1"],
                                      start_epoch |-> start,
                                      end_epoch |-> start + len,
                                      daily_requirements |-> <<<<skill, 1>>>>]>>,
                    now_epoch |-> now,
                    store |-> [kind |-> "obj", ref |-> 1],
                    pto_map |-> <<>>,
                    first |-> 0, last |-> 6]
              ELSE NoArgs]
        /\ Boot(op, <<seed>>)

\* one month view of a single week with one task active on days 0, 1 and
\* 2 that requires one person of each of one or two skills, any skills of
\* the persons, and one person on PTO on day 0 or on days 0 and 1
InitFailedDay ==
    \E s1 \in SUBSET Skills, s2 \in SUBSET Skills, s3 \in SUBSET Skills,
       req \in {<<<<"a", 1>>>>, <<<<"a", 1>>, <<"b", 1>>>>},
       who \in Persons, off \in {{0}, {0, 1}},
       seed \in {EmptyStore} :
        /\ skillsOf = [p \in Persons |->
                          IF p = "p1" THEN s1 ELSE IF p = "p2" THEN s2 ELSE s3]
        /\ global_pto = <<>>
        /\ db_up = TRUE
        /\ op = [r \in Procs |-> IF r = 1 THEN "month" ELSE "none"]
        /\ args = [r \in Procs |->
              IF r = 1
              THEN [people |-> AllPeople,
                    tasks |-> <<MkTask("t1", 0, 2, req)>>,
                    now_epoch |-> 0,
                    store |-> [kind |-> "obj", ref |-> 1],
                    pto_map |-> [k \in {DateKey(x) : x \in off} |-> {who}],
                    first |-> 0, last |-> 6]
              ELSE NoArgs]
        /\ Boot(op, <<seed>>)

InitDriver == InitEdge \/ InitFailedDay

SpecDriver == InitDriver /\ [][Next]_vars

\* the longest horizon
MaxSpan == 3

\* a HorizonScheduler run over MaxSpan days from day 0: nobody or three
\* persons with any skills, p1 with five preworked days or none, no task,
\* one task or two, the first with any counts and any of three intervals,
\* asked with and without allow_future
InitHorizon ==
    \E nobody \in BOOLEAN,
       s1 \in SUBSET Skills, s2 \in SUBSET Skills, s3 \in {{"a"}, {"a", "b"}},
       pre \in {0, 5},
       ntasks \in 0..2, c1 \in 0..MaxReq, c2 \in 0..1,
       span \in {<<0, MaxSpan * TicksPerDay>>, <<TicksPerDay, 2 * TicksPerDay>>,
                 <<1, 2 * TicksPerDay + 1>>},
       future \in {<<TRUE, 0>>, <<FALSE, TicksPerDay + 1>>,
                   <<FALSE, MaxSpan * TicksPerDay>>} :
        /\ nobody => (s1 = {} /\ s2 = {} /\ s3 = {"a"} /\ pre = 0)
        /\ ntasks = 0 => (c1 = 0 /\ c2 = 0 /\ span[1] = 0)
        /\ hargs = [people |-> IF nobody THEN <<>>
                               ELSE <<[person_id |-> "p3", skills |-> s3,
                                       preworked_in_last_7 |-> 0],
                                      [person_id |-> "p1", skills |-> s1,
                                       preworked_in_last_7 |-> pre],
                                      [person_id |-> "p2", skills |-> s2,
                                       preworked_in_last_7 |-> 0]>>,
                    tasks |-> SubSeq(
                        <<[task_id |-> "t2",
                           required_skills |-> <<<<"a", c1>>, <<"b", c2>>>>,
                           start_ts |-> span[1], end_ts |-> span[2]],
                          [task_id |-> "t1",
                           required_skills |-> <<<<"b", 1>>>>,
                           start_ts |-> 0, end_ts |-> MaxSpan * TicksPerDay]>>,
                        1, ntasks),
                    start_day |-> 0,
                    span_days |-> MaxSpan,
                    current_ts |-> future[2],
                    allow_future |-> future[1]]
        /\ hpc = "new"
        /\ history_prev6 = <<>>
        /\ violations = <<>>
        /\ hdays = <<>>
        /\ build_feasible = TRUE
        /\ day_i = 0
        /\ uniq = <<>>
        /\ ord_k = 0
        /\ schedule = <<>>
        /\ skillsOf = [p \in Persons |-> {}]
        /\ global_pto = <<>>
        /\ db_up = TRUE
        /\ op = [r \in Procs |-> "none"]
        /\ args = [r \in Procs |-> NoArgs]
        /\ SssIdle
        /\ BootServer(op, <<>>)

SpecHorizon == InitHorizon /\ [][NextHorizon]_vars

\* one month view of a single week for an empty people list: one task of
\* any interval that asks for no person or one, asked before and after
\* the task has ended
InitNobody ==
    \E start \in 0..(2 * TicksPerDay), len \in 1..(2 * TicksPerDay),
       now \in {0, 4 * TicksPerDay}, count \in 0..1,
       seed \in {EmptyStore} :
        /\ skillsOf = [p \in Persons |-> {"a"}]
        /\ global_pto = <<>>
        /\ db_up = TRUE
        /\ op = [r \in Procs |-> IF r = 1 THEN "month" ELSE "none"]
        /\ args = [r \in Procs |->
              IF r = 1
              THEN [people |-> <<>>,
                    tasks |-> <<[task_id |-> "t1", name |-> TaskName["t1"],
                                 start_epoch |-> start,
                                 end_epoch |-> start + len,
                                 daily_requirements |-> <<<<"a", count>>>>]>>,
                    now_epoch |-> now,
                    store |-> [kind |-> "obj", ref |-> 1],
                    pto_map |-> <<>>,
                    first |-> 0, last |-> 6]
              ELSE NoArgs]
        /\ Boot(op, <<seed>>)

\* the length of the horizon of the rolling-cap runs
WeekSpan == 7

\* a HorizonScheduler run over WeekSpan days from day 0: one person or two
\* who hold the one skill asked for, with any preworked value, and one task
\* asking for one person or two over the whole horizon or its first days,
\* with allow_future, or without it from a current_ts inside the horizon
InitSolo ==
    \E pre1 \in 0..5, pre2 \in {0, 2, 5}, two \in BOOLEAN, cnt \in 1..2,
       last \in {3, WeekSpan},
       future \in {<<TRUE, 0>>, <<FALSE, 4 * TicksPerDay>>} :
        /\ (~two) => pre2 = 0
        /\ hargs = [people |-> SubSeq(
                        <<[person_id |-> "p1", skills |-> {"a"},
                           preworked_in_last_7 |-> pre1],
                          [person_id |-> "p2", skills |-> {"a"},
                           preworked_in_last_7 |-> pre2]>>,
                        1, IF two THEN 2 ELSE 1),
                    tasks |-> <<[task_id |-> "t1",
                                 required_skills |-> <<<<"a", cnt>>>>,
                                 start_ts |-> 0,
                                 end_ts |-> last * TicksPerDay]>>,
                    start_day |-> 0,
                    span_days |-> WeekSpan,
                    current_ts |-> future[2],
                    allow_future |-> future[1]]
        /\ hpc = "new"
        /\ history_prev6 = <<>>
        /\ violations = <<>>
        /\ hdays = <<>>
        /\ build_feasible = TRUE
        /\ day_i = 0
        /\ uniq = <<>>
        /\ ord_k = 0
        /\ schedule = <<>>
        /\ skillsOf = [p \in Persons |-> {}]
        /\ global_pto = <<>>
        /\ db_up = TRUE
        /\ op = [r \in Procs |-> "none"]
        /\ args = [r \in Procs |-> NoArgs]
        /\ SssIdle
        /\ BootServer(op, <<>>)

SpecSolo == InitSolo /\ [][NextHorizon]_vars

\* the skill tags of the one-day runs
Tags == {"a", "b", "c"}

\* a HorizonScheduler run over one day or two: three persons with any
\* skills out of three, the first with five preworked days or none, and two
\* tasks active on every day, one asking for one person of one skill and
\* one asking for one person of each of two skills
InitGreedy ==
    \E s1 \in SUBSET Tags, s2 \in SUBSET Tags, s3 \in SUBSET Tags,
       pre \in {0, 5}, one \in Tags, span \in 1..2 :
        /\ s1 # {} /\ s2 # {} /\ s3 # {}
        /\ hargs = [people |-> <<[person_id |-> "p1", skills |-> s1,
                                  preworked_in_last_7 |-> pre],
                                 [person_id |-> "p2", skills |-> s2,
                                  preworked_in_last_7 |-> 0],
                                 [person_id |-> "p3", skills |-> s3,
                                  preworked_in_last_7 |-> 0]>>,
                    tasks |-> <<[task_id |-> "t1",
                                 required_skills |-> <<<<one, 1>>>>,
                                 start_ts |-> 0, end_ts |-> 2 * TicksPerDay],
                                [task_id |-> "t2",
                                 required_skills |-> <<<<"a", 1>>, <<"c", 1>>>>,
                                 start_ts |-> 0, end_ts |-> 2 * TicksPerDay]>>,
                    start_day |-> 0,
                    span_days |-> span,
                    current_ts |-> 0,
                    allow_future |-> (span = 1)]
        /\ hpc = "new"
        /\ history_prev6 = <<>>
        /\ violations = <<>>
        /\ hdays = <<>>
        /\ build_feasible = TRUE
        /\ day_i = 0
        /\ uniq = <<>>
        /\ ord_k = 0
        /\ schedule = <<>>
        /\ skillsOf = [p \in Persons |-> {}]
        /\ global_pto = <<>>
        /\ db_up = TRUE
        /\ op = [r \in Procs |-> "none"]
        /\ args = [r \in Procs |-> NoArgs]
        /\ SssIdle
        /\ BootServer(op, <<>>)

SpecGreedy == InitGreedy /\ [][NextHorizon]_vars

\* two requests served in parallel: the same operation with the same
\* arguments, month views of one week or strict admission checks, handed
\* one PlanStore object, with one task of one day or of the whole week that
\* asks for one person of a skill that one person or two hold
InitParallel ==
    \E o \in {"month", "strict"}, s2 \in {{"a"}, {"b"}}, last_day \in {0, 6},
       cand \in {"p2", "p3"}, seed \in {EmptyStore} :
        /\ o = "month" => cand = "p3"
        /\ skillsOf = [p \in Persons |->
                          IF p = "p1" THEN {"a"} ELSE IF p = "p2" THEN s2 ELSE {"b"}]
        /\ global_pto = <<>>
        /\ db_up = TRUE
        /\ op = [r \in Procs |-> o]
        /\ args = [r \in Procs |->
              IF o = "month"
              THEN [people |-> AllPeople,
                    tasks |-> <<MkTask("t1", 0, last_day, <<<<"a", 1>>>>)>>,
                    now_epoch |-> 0,
                    store |-> [kind |-> "obj", ref |-> 1],
                    pto_map |-> <<>>,
                    first |-> 0, last |-> 6]
              ELSE [people |-> AllPeople,
                    tasks |-> <<MkTask("t1", 0, last_day, <<<<"a", 1>>>>)>>,
                    now_epoch |-> 0,
                    person_id |-> cand,
                    pto_days |-> <<DateKey(1)>>,
                    base_store |-> [kind |-> "obj", ref |-> 1],
                    baseline_pto_map |-> <<>>,
                    cohort_pto_requests |-> <<>>,
                    use_global_pto |-> FALSE]]
        /\ after = [r \in Procs |-> {}]
        /\ HzIdle
        /\ SssIdle
        /\ BootState(op, <<seed>>)

\* a request is between two day solves, before its first or after its last
BetweenDays(r) == pc[r] \in {"call", "weeks", "days", "done"}

\* no other request is inside a day solve
Turn(r) == \A q \in Procs \ {r} : BetweenDays(q)

\* the requests interleaved at day granularity: a request takes a step
\* only while no other request is inside a day solve
NextParallel ==
    \E r \in Procs :
        \/ Turn(r) /\ Call(r)
        \/ Turn(r) /\ WeekLoop(r)
        \/ Turn(r) /\ DayLoop(r)
        \/ Turn(r) /\ Solve(r)
        \/ Turn(r) /\ BtEnter(r)
        \/ Turn(r) /\ BtLoop(r)
        \/ Turn(r) /\ BtCheck(r)
        \/ Turn(r) /\ BtRet(r)
        \/ Turn(r) /\ SolveRet(r)

SpecParallel == InitParallel /\ [][NextParallel]_vars

\* a month view of a month that begins on a Monday, a Wednesday or a
\* Sunday and lasts seven days or eight, with one task that is active from
\* before the month or from its first day, to its last day or beyond it,
\* and asks for one person of a skill that one person or two hold
InitMonth ==
    \E first \in {0, 2, 6}, len \in 7..8, early \in BOOLEAN, late \in BOOLEAN,
       s2 \in {{"a"}, {"b"}}, seed \in {EmptyStore} :
        /\ skillsOf = [p \in Persons |->
                          IF p = "p1" THEN {"a"} ELSE IF p = "p2" THEN s2 ELSE {"b"}]
        /\ global_pto = <<>>
        /\ db_up = TRUE
        /\ op = [r \in Procs |-> IF r = 1 THEN "month" ELSE "none"]
        /\ args = [r \in Procs |->
              IF r = 1
              THEN [people |-> AllPeople,
                    tasks |-> <<MkTask("t1",
                                       IF early THEN 0 ELSE first,
                                       IF late THEN 7 * (MaxWeeks + 1) - 1
                                       ELSE first + len - 1,
                                       <<<<"a", 1>>>>)>>,
                    now_epoch |-> 0,
                    store |-> [kind |-> "obj", ref |-> 1],
                    pto_map |-> <<>>,
                    first |-> first, last |-> first + len - 1]
              ELSE NoArgs]
        /\ Boot(op, <<seed>>)

SpecMonth == InitMonth /\ [][Next]_vars

\* the server takes no request
ServerOff ==
    /\ skillsOf = [p \in Persons |-> {}]
    /\ global_pto = <<>>
    /\ db_up = TRUE
    /\ op = [r \in Procs |-> "none"]
    /\ args = [r \in Procs |-> NoArgs]
    /\ BootServer(op, <<>>)

\* the longest timebox of a task of the week-cap runs, in days
CapDays == 8

\* the weekly caps of the runs: the default 5, small caps that bite within
\* a week, and a cap below zero
Caps == {-1, 0, 1, 2, 5}

\* MultiDaySchedulerWeekCap(tasks, people, weekly_cap).schedule(): one or
\* two people, a task over skill "a" of a short or a long timebox, and an
\* optional two-day task over skill "b"
InitCapRun ==
    \E cap \in Caps, two \in BOOLEAN, s2 \in {{"a"}, {"a", "b"}}, cnt \in 0..2,
       box \in {0, TicksPerDay + 1, CapDays * TicksPerDay}, second \in BOOLEAN :
        /\ (~two) => s2 = {"a"}
        /\ cargs = [tasks |-> <<[tid |-> "t1",
                                 required |-> <<<<"a", cnt>>>>,
                                 timebox_seconds |-> box]>>
                              \o (IF second
                                  THEN <<[tid |-> "t2",
                                          required |-> <<<<"b", 1>>>>,
                                          timebox_seconds |-> 2 * TicksPerDay]>>
                                  ELSE <<>>),
                    people |-> SubSeq(<<[pid |-> "p1", skills |-> {"a"}],
                                        [pid |-> "p2", skills |-> s2]>>,
                                      1, IF two THEN 2 ELSE 1),
                    weekly_cap |-> cap]
        /\ cpc = "new"
        /\ cday = 0
        /\ days_worked = <<>>
        /\ by_day = <<>>
        /\ raised = "none"
        /\ WeekIdle
        /\ HzIdle
        /\ ServerOff

SpecWeekCap == InitCapRun /\ [][NextCap]_vars

\* the Mondays of the weeks of the runs: the week summer time starts in,
\* the week it ends in, and a week without a change
Mondays == {0, 7, 14}

\* WeeklyScheduler(people, tasks, current_ts).build() and validate_schedule:
\* two people given out of order, a task over skill "a" on the whole week,
\* on two days of it, on the last tick of its Sunday or on the first tick
\* after it, an optional second task, and current_ts on the Wednesday or
\* the Sunday of the week
InitWeek ==
    \E m \in Mondays, c \in {2, 6}, s2 \in {{"a"}, {"a", "b"}}, cnt \in 1..2,
       box \in {"week", "days", "last", "next"}, second \in BOOLEAN :
        LET ts(n) == timestamp(Zoned(m + n))
            t1 == [task_id |-> "t1",
                   required_skills |-> <<<<"a", cnt>>>>,
                   start_ts |-> CASE box = "week" -> ts(0)
                                  [] box = "days" -> ts(1)
                                  [] box = "last" -> ts(7) - 1
                                  [] box = "next" -> ts(7),
                   end_ts |-> CASE box = "week" -> ts(7)
                                [] box = "days" -> ts(3)
                                [] box = "last" -> ts(7)
                                [] box = "next" -> ts(7) + 1]
            t2 == [task_id |-> "t2",
                   required_skills |-> <<<<"a", 1>>, <<"b", 1>>>>,
                   start_ts |-> ts(2),
                   end_ts |-> ts(4)]
        IN  /\ wargs = [people |-> <<[person_id |-> "p2", skills |-> s2],
                                     [person_id |-> "p1", skills |-> {"a"}]>>,
                        tasks |-> IF second THEN <<t2, t1>> ELSE <<t1>>,
                        current_ts |-> ts(c)]
            /\ wpc = "new"
            /\ wday = 0
            /\ person_days_used = <<>>
            /\ wviolations = <<>>
            /\ wdays = <<>>
            /\ wfeasible = TRUE
            /\ week = <<>>
            /\ verdict = <<>>
            /\ CapIdle
            /\ HzIdle
            /\ ServerOff

SpecWeek == InitWeek /\ [][NextWeek]_vars

\* the lists of a PTO map of the cache_schedule calls: in order or not,
\* with or without a repeated id
PtoLists == {<<"p1">>, <<"p2", "p1">>, <<"p3", "p3">>}

\* the PTO maps over the days 1 and 2 (date keys)
PtoMaps ==
    UNION {[{DateKey(x) : x \in D} -> PtoLists] : D \in SUBSET {1, 2}}

\* one call cache_schedule(store, assignments, pto_map, pending_pto,
\* accept_pto) on a store that is empty or holds a day of p1
InitCache ==
    \E base \in PtoMaps, pend \in PtoMaps, acc \in BOOLEAN, n \in 0..2,
       held \in BOOLEAN :
        /\ skillsOf = [p \in Persons |-> {"a"}]
        /\ global_pto = <<>>
        /\ db_up = TRUE
        /\ op = [r \in Procs |-> IF r = 1 THEN "cache" ELSE "none"]
        /\ args = [r \in Procs |->
              IF r = 1
              THEN [store |-> 1,
                    assignments |-> SubSeq(
                        <<[day |-> 0, person_id |-> "p1", task_id |-> "t1",
                           skills_contributed |-> <<"a">>],
                          [day |-> 1, person_id |-> "p2", task_id |-> "t1",
                           skills_contributed |-> <<"a">>]>>, 1, n),
                    pto_map |-> base,
                    pending_pto |-> pend,
                    accept_pto |-> acc]
              ELSE NoArgs]
        /\ Boot(op, <<[p \in Persons |-> IF held /\ p = "p1" THEN {0, 3} ELSE {}]>>)

SpecCache == InitCache /\ [][NextCache]_vars

\* both schedulers on their boundary inputs
InitBoundary == InitEdge \/ InitNobody \/ InitHorizon
NextBoundary == Next \/ NextHorizon
SpecBoundary == InitBoundary /\ [][NextBoundary]_vars

\* ------------------------------------------------------------ properties
\* every Assignment process r has collected so far
Out(r) ==
    IF pc[r] \in {"call", "weeks", "done"} THEN all_assignments[r]
    ELSE all_assignments[r] \o wk_assignments[r]
Running == {r \in Procs : op[r] # "none"}

\* C1: in every successful solve() result, for every task of the day and
\* every required skill, the number of assigned persons whose
\* skills_contributed holds the skill equals the required count
C1_ExactCoverage ==
    \A r \in Running :
        (pc[r] = "solve_ret" /\ feasible[r]) =>
            LET res == SolveResults(d[r], sTasks[r], assigned_today[r])
            IN  \A t \in Range(sTasks[r]) : \A s \in ReqKeys(t) :
                    Cardinality({i \in 1..Len(res) :
                        /\ res[i].task_id = t.task_id
                        /\ s \in Range(res[i].skills_contributed)}) = ReqOf(t, s)

\* C2: no person ever holds more than 5 committed days in 7 consecutive
\* days of the store the weeks are scheduled on
C2_RollingCap ==
    \A r \in Running : store[r] # 0 =>
        \A p \in Persons : \A day \in -6..(7 * MaxWeeks + 13) :
            count_in_window(Store(r), p, day - 6, day) <= 5

\* person p is listed for day in the PTO map schedule_week was given
Listed(r, day, p) == day \in DOMAIN pto_map[r] /\ p \in Range(pto_map[r][day])

\* C3: nobody is assigned on a day for which the PTO map lists them, in
\* the returned lists and on every backtracking path
C3_PtoExclusion ==
    \A r \in Running :
        /\ \A i \in 1..Len(Out(r)) :
               ~Listed(r, Out(r)[i].day, Out(r)[i].person_id)
        /\ pc[r] \in {"bt_enter", "bt_loop", "bt_check", "bt_ret", "solve_ret"} =>
               \A i \in 1..Len(assigned_today[r]) :
                   ~Listed(r, d[r], assigned_today[r][i][1])

\* a day was solved with assignments while a person who holds a skill the
\* day's task requires was on PTO
C3_Witness ==
    \E r \in Running : \E i \in 1..Len(Out(r)) :
        LET a == Out(r)[i]
            t == task_by_id(args[r].tasks, a.task_id)
        IN  \E p \in Persons :
               /\ Listed(r, a.day, p)
               /\ skillsOf[p] \cap ReqKeys(t) # {}

\* the persons the frames of backtrack() hold assigned at the moment
FramePersons(r) ==
    LET n == IF pc[r] = "bt_loop" THEN Len(stack[r]) - 1 ELSE Len(stack[r])
    IN  [k \in 1..n |-> stack[r][k].cands[stack[r][k].i]]

\* C4: at most one assignment per (day, person) in the lists returned, and
\* no person is tentatively assigned twice while backtracking
C4_SingleTaskPerDay ==
    \A r \in Running :
        /\ \A i, j \in 1..Len(Out(r)) :
               (Out(r)[i].day = Out(r)[j].day /\
                Out(r)[i].person_id = Out(r)[j].person_id) => i = j
        /\ pc[r] \in {"bt_enter", "bt_loop", "bt_check"} =>
               /\ \A i, j \in 1..Len(FramePersons(r)) :
                      FramePersons(r)[i] = FramePersons(r)[j] => i = j
               /\ {assigned_today[r][i][1] : i \in 1..Len(assigned_today[r])}
                      = Range(FramePersons(r))
               /\ Len(assigned_today[r]) = Len(FramePersons(r))

\* two tasks are being staffed and the person assigned to the first holds
\* the skill the second need asks for
C4_Witness ==
    \E r \in Running :
        /\ pc[r] = "bt_loop"
        /\ Len(stack[r]) = 2
        /\ stack[r][1].task_id # stack[r][2].task_id
        /\ stack[r][2].skill \in skillsOf[stack[r][1].cands[stack[r][1].i]]

\* C5: the skills an assignment lists as contributed are skills of the
\* person and required skills of the task
C5_SkillPossession ==
    \A r \in Running : \A i \in 1..Len(Out(r)) :
        LET a == Out(r)[i]
            t == task_by_id(args[r].tasks, a.task_id)
        IN  /\ Range(a.skills_contributed) \subseteq skillsOf[a.person_id]
            /\ Range(a.skills_contributed) \subseteq ReqKeys(t)

\* an assignment of a person who lacks one of the task's required skills
C5_Witness ==
    \E r \in Running : \E i \in 1..Len(Out(r)) :
        LET a == Out(r)[i]
            t == task_by_id(args[r].tasks, a.task_id)
        IN  /\ a.skills_contributed # <<>>
            /\ ReqKeys(t) \ skillsOf[a.person_id] # {}

\* C6: two schedule runs on equal stores, PTO maps and weeks, given the
\* people and the tasks in different orders, return the same assignment
\* list in the same order and the same unsatisfied list
C6_OrderIndependence ==
    (/\ \A r \in Procs : op[r] = "month" /\ pc[r] = "done"
     /\ Range(args[1].people) = Range(args[2].people)
     /\ Range(args[1].tasks) = Range(args[2].tasks)
     /\ args[1].store = args[2].store
     /\ args[1].pto_map = args[2].pto_map
     /\ args[1].first = args[2].first /\ args[1].last = args[2].last)
        => result[1] = result[2]

\* both runs have returned, the orders given differed, and two persons of
\* the same name and the same skills were both candidates for a need one of
\* them was assigned to
C6_Witness ==
    /\ \A r \in Procs : op[r] = "month" /\ pc[r] = "done"
    /\ args[1].people # args[2].people
    /\ args[1].tasks # args[2].tasks
    /\ skillsOf["p1"] = skillsOf["p3"]
    /\ \E i \in 1..Len(result[1].assignments) :
           result[1].assignments[i].person_id = "p1"
    /\ \A i \in 1..Len(result[1].assignments) :
           result[1].assignments[i].person_id # "p3"

\* the PlanStore objects handed to a can_approve_pto_strict call as base_store
BaseRefs ==
    {args[r].base_store.ref : r \in {q \in Procs :
        op[q] = "strict" /\ args[q].base_store.kind = "obj"}}

\* C7: no step of can_approve_pto_strict changes the PlanStore it was given
\* as base_store, whatever the outcome; the commits go to another object
C7_BaseStoreUnchanged ==
    [][\A ref \in BaseRefs : heap'[ref] = heap[ref]]_vars

\* a strict check has returned after committing days to the store it
\* scheduled on, which is not the object it was given
C7_Witness ==
    \E r \in Procs :
        /\ op[r] = "strict" /\ pc[r] = "done"
        /\ args[r].base_store.kind = "obj"
        /\ "assignments" \in DOMAIN result[r]
        /\ result[r].assignments # <<>>
        /\ store[r] # args[r].base_store.ref
        /\ heap[store[r]] # heap[args[r].base_store.ref]

\* the admission checks that have built their combined PTO map
Admitting ==
    {r \in Procs : /\ op[r] \in {"approve", "strict"}
                   /\ args[r].pto_days # <<>>
                   /\ pc[r] # "call"}

\* the persons a raw PTO map lists for a calendar day, under either key form
RawListed(m, day) == UNION {m[k] : k \in {x \in DOMAIN m : ParseDay(x) = day}}

\* the calendar days the candidate asks for
CandidateDays(r) == {ParseDay(args[r].pto_days[i]) : i \in 1..Len(args[r].pto_days)}

\* the cohort persons who requested a calendar day
CohortListed(r, day) ==
    LET c == args[r].cohort_pto_requests
    IN  {pid \in DOMAIN c : \E i \in 1..Len(c[pid]) : ParseDay(c[pid][i]) = day}

\* C8: the combined PTO map of an admission check is the union of its
\* parts: for every day it lists every person of the baseline map, the
\* candidate on a candidate day and every cohort person who requested the day
C8_CombinedIsUnion ==
    \A r \in Admitting :
        \A day \in -1..(7 * MaxWeeks) :
            /\ \A p \in RawListed(args[r].baseline_pto_map, day) : Listed(r, day, p)
            /\ day \in CandidateDays(r) => Listed(r, day, args[r].person_id)
            /\ op[r] = "strict" => \A p \in CohortListed(r, day) : Listed(r, day, p)

\* the admission checks that have returned a verdict
Admitted == {r \in Admitting : pc[r] = "done"}

\* the candidate of r is the only person holding skill s, task t requires
\* one person with s, and on every candidate day each other required skill
\* of t has a holder who is not on PTO and has no committed day at all
OnlyHolder(r, t, s) ==
    /\ {p \in Persons : s \in skillsOf[p]} = {args[r].person_id}
    /\ s \in ReqKeys(t) /\ ReqOf(t, s) = 1
    /\ \A day \in CandidateDays(r) :
           /\ is_task_active_on_day(t, day)
           /\ Listed(r, day, args[r].person_id)
           /\ \A s2 \in ReqKeys(t) \ {s} :
                  /\ ReqOf(t, s2) = 1
                  /\ \E p \in Persons :
                         /\ s2 \in skillsOf[p]
                         /\ ~Listed(r, day, p)
                         /\ heap[args[r].base_store.ref][p] = {}

\* C9: when the candidate is the only holder of a skill a task requires
\* once, the check returns feasible = false and lists exactly the candidate
\* days, each with the deficit {task name: {skill: 1}}
C9_ResidualDeficit ==
    \A r \in Admitted : \A t \in Range(args[r].tasks) : \A s \in Skills :
        OnlyHolder(r, t, s) =>
            /\ result[r].feasible = FALSE
            /\ {result[r].unsatisfied[i][1] : i \in 1..Len(result[r].unsatisfied)}
                   = {isoformat(x) : x \in CandidateDays(r)}
            /\ \A i \in 1..Len(result[r].unsatisfied) :
                   result[r].unsatisfied[i][2] = [n \in {t.name} |-> [k \in {s} |-> 1]]

\* the days on which the returned assignments give person p a task
ReturnedDays(r, p) ==
    {fromisoformat(result[r].assignments[i].date) :
        i \in {j \in 1..Len(result[r].assignments) :
                  result[r].assignments[j].person_id = p}}

\* C10: the assignments an admission check returns never give a person
\* more than 5 days in 7 consecutive days, also across a week boundary
C10_CapAcrossWeeks ==
    \A r \in Admitted : \A p \in Persons : \A day \in 0..(7 * MaxWeeks + 13) :
        Cardinality({x \in ReturnedDays(r, p) : day - 6 <= x /\ x <= day}) <= 5

\* the first and the last Monday of the span the candidate days define
SpanFirst(r) == start_of_week(SetMin(CandidateDays(r)))
SpanLast(r)  == start_of_week(SetMax(CandidateDays(r)))

\* C11: the weeks an admission check solves are the weeks from the Monday
\* on or before the earliest candidate day through the Monday on or before
\* the latest candidate day; baseline and cohort days add no week
C11_SpanFromCandidateDays ==
    \A r \in Admitting :
        /\ SpanFirst(r) <= cur[r]
        /\ pc[r] \notin {"weeks", "done"} => cur[r] <= SpanLast(r)
        /\ pc[r] = "done" => cur[r] = SpanLast(r) + 7

\* person p may be given a task on the day process r is solving: p is in
\* the people list, not on PTO, and has at most 4 committed days in [D-6, D]
Usable(r, p) ==
    /\ p \in Range(args[r].people)
    /\ ~Listed(r, d[r], p)
    /\ Cardinality({x \in Store(r)[p] : d[r] - 6 <= x /\ x <= d[r]}) <= 4

\* some way of giving usable persons one task each covers every
\* requirement of every task of the day
AssignmentExists(r) ==
    \E f \in [Persons -> {t.task_id : t \in Range(sTasks[r])} \cup {"-"}] :
        /\ \A p \in Persons : f[p] # "-" => Usable(r, p)
        /\ \A t \in Range(sTasks[r]) : \A s \in ReqKeys(t) :
               Cardinality({p \in Persons : f[p] = t.task_id /\ s \in skillsOf[p]})
                   >= ReqOf(t, s)

\* C12: solve() reports a day infeasible only when no assignment of
\* distinct usable persons, one task each, covers every requirement
C12_FailureOnlyIfNoAssignment ==
    \A r \in Running :
        (pc[r] = "solve_ret" /\ ~feasible[r]) => ~AssignmentExists(r)

\* a day was found infeasible although every required skill has a usable
\* holder
C12_Witness ==
    \E r \in Running :
        /\ pc[r] = "solve_ret" /\ ~feasible[r]
        /\ \A t \in Range(sTasks[r]) : \A s \in ReqKeys(t) :
               ReqOf(t, s) > 0 => \E p \in Persons : Usable(r, p) /\ s \in skillsOf[p]

\* the days of person p among the assignments q[from + 1 .. Len(q)]
DaysFrom(q, from, p) ==
    {q[i].day : i \in {j \in (from + 1)..Len(q) : q[j].person_id = p}}

\* C13: the store a scheduler works on changes only by the commit of a
\* solved day: every step leaves it as it was plus exactly the (person,
\* day) pairs of the assignments the step added to the returned list; a
\* step of solve() and a day reported unsatisfied add nothing
C13_StoreChangesByCommitOnly ==
    [][\A r \in Running :
          (store[r] # 0 /\ store'[r] = store[r]) =>
              /\ Len(Out(r)') >= Len(Out(r))
              /\ \A p \in Persons :
                     heap'[store[r]][p] =
                         heap[store[r]][p] \cup DaysFrom(Out(r)', Len(Out(r)), p)
              /\ (pc[r] = "solve_ret" /\ ~feasible[r]) =>
                     /\ heap'[store[r]] = heap[store[r]]
                     /\ Out(r)' = Out(r)
              /\ pc[r] \in {"solve", "bt_enter", "bt_loop", "bt_check", "bt_ret"} =>
                     heap'[store[r]] = heap[store[r]]]_vars

\* a week has returned with a day unsatisfied and a day solved, and the
\* solved day is in the store
C13_Witness ==
    \E r \in Running :
        /\ pc[r] = "weeks" /\ store[r] # 0
        /\ unsatisfied[r] # <<>>
        /\ \E i \in 1..Len(wk_assignments[r]) :
               wk_assignments[r][i].day \in Store(r)[wk_assignments[r][i].person_id]

\* start_ts < end_of_day(D) and end_ts > start_of_day(D)
IntervalActive(t, day) ==
    /\ t.start_epoch < _day_interval(day)[2]
    /\ t.end_epoch > _day_interval(day)[1]

\* C14: a driver treats a task as active on day D exactly when it starts
\* before the end of D and ends after the start of D: the tasks
\* schedule_week hands to the DaySolver of a day are the tasks not ended
\* before now_epoch whose interval meets the day, and Task.is_active_on_day
\* of the HorizonScheduler agrees with the interval test
C14_ActiveByInterval ==
    [][\A r \in Running :
          (pc[r] = "days" /\ d[r] <= cur[r] + 6 /\ <<pc[r], d[r]>>' # <<pc[r], d[r]>>) =>
              LET act == {t \in Range(args[r].tasks) :
                             /\ t.end_epoch >= args[r].now_epoch
                             /\ IntervalActive(t, d[r])}
              IN  /\ IF act = {} THEN pc'[r] = "days"
                     ELSE pc'[r] = "solve" /\ Range(sTasks'[r]) = act
                  /\ \A t \in Range(args[r].tasks) :
                         is_active_on_day([start_ts |-> t.start_epoch,
                                           end_ts |-> t.end_epoch],
                                          _day_interval(d[r])[1],
                                          _day_interval(d[r])[2])
                             <=> IntervalActive(t, d[r])]_vars

\* the committed days of person p in [day - 6, day] in the store of r
Stored(r, p, day) == Cardinality({x \in Store(r)[p] : day - 6 <= x /\ x <= day})

\* the days can_assign is asked about
ProbeDays == -1..(7 * MaxWeeks)

\* C15 as stated: can_assign(person, D, pending_same_day = false) is true
\* exactly when the stored count in [D-6, D] is <= 4, and with
\* pending_same_day = true exactly when the stored count is <= 5
C15_StoredCountThresholds ==
    \A r \in Running : store[r] # 0 =>
        \A p \in Persons : \A day \in ProbeDays :
            /\ can_assign(Store(r), p, day, FALSE) <=> Stored(r, p, day) <= 4
            /\ can_assign(Store(r), p, day, TRUE) <=> Stored(r, p, day) <= 5

\* C15 amended: with pending_same_day = true the count compared with 5 is
\* the stored count plus one when D is not yet a committed day of the
\* person; with pending_same_day = false the stored count is compared with 4
C15_PendingDayCounted ==
    \A r \in Running : store[r] # 0 =>
        \A p \in Persons : \A day \in ProbeDays :
            /\ can_assign(Store(r), p, day, FALSE) <=> Stored(r, p, day) <= 4
            /\ can_assign(Store(r), p, day, TRUE) <=>
                   Stored(r, p, day) + (IF day \in Store(r)[p] THEN 0 ELSE 1) <= 5

\* the solver is choosing candidates for a day on which a person has 5
\* committed days in the window and the day itself is not committed
C15_Witness ==
    \E r \in Running : \E p \in Persons :
        /\ pc[r] = "bt_enter" /\ store[r] # 0
        /\ d[r] \in ProbeDays
        /\ Stored(r, p, d[r]) = 5
        /\ d[r] \notin Store(r)[p]

\* the strict checks that hold a clone of the PlanStore object they were given
Cloned ==
    {r \in Procs : /\ op[r] = "strict" /\ store[r] # 0
                   /\ args[r].base_store.kind = "obj"}

\* C16: from_json(to_json(s)) equals s for every store reached by
\* preloading, committing and parsing, and the store built from the JSON is
\* another object: it starts equal to s and commits to it leave s as it was
C16_JsonRoundTrip ==
    /\ [](\A i \in 1..Len(heap) : from_json(to_json(heap[i])) = heap[i])
    /\ [][\A r \in Procs :
             /\ (op[r] = "strict" /\ args[r].base_store.kind = "obj"
                   /\ pc[r] = "call" /\ pc'[r] = "weeks") =>
                    /\ store'[r] \notin 1..Len(heap)
                    /\ heap'[store'[r]] = heap[args[r].base_store.ref]
                    /\ heap'[args[r].base_store.ref] = heap[args[r].base_store.ref]
             /\ (r \in Cloned /\ heap'[store[r]] # heap[store[r]]) =>
                    heap'[args[r].base_store.ref] = heap[args[r].base_store.ref]]_vars

\* a store that holds days was cloned through its JSON form and the clone
\* has since been committed to
C16_Witness ==
    \E r \in Cloned :
        /\ \E p \in Persons : heap[args[r].base_store.ref][p] # {}
        /\ heap[store[r]] # heap[args[r].base_store.ref]

\* the list of assignments schedule_week is about to commit
Pending(r) == SolveResults(d[r], sTasks[r], assigned_today[r])

\* C17: commit is idempotent: committing a list twice, or the list
\* followed by itself, gives the store of committing it once, and no day
\* already in the store is removed
C17_CommitIdempotent ==
    \A r \in Running :
        (pc[r] = "solve_ret" /\ feasible[r]) =>
            LET once == commit(Store(r), Pending(r))
            IN  /\ commit(once, Pending(r)) = once
                /\ commit(Store(r), Pending(r) \o Pending(r)) = once
                /\ \A p \in Persons :
                       /\ Store(r)[p] \subseteq once[p]
                       /\ once[p] = Store(r)[p] \cup DaysFrom(Pending(r), 0, p)

\* a solved day is about to be committed for a person who already has
\* committed days, one of them this very day
C17_Witness ==
    \E r \in Running :
        /\ pc[r] = "solve_ret" /\ feasible[r]
        /\ \E i \in 1..Len(Pending(r)) :
               /\ Pending(r)[i].day \in Store(r)[Pending(r)[i].person_id]
               /\ Cardinality(Store(r)[Pending(r)[i].person_id]) > 1

\* the persons of the people list of r who hold skill s
Holders(r, s) == {p \in Range(args[r].people) : s \in skillsOf[p]}

\* one week with a single task active on days 0, 1 and 2 only, each
\* required skill asked once and held by exactly one person, one of these
\* persons on PTO on day 0 and on no other day, and a store that held no
\* day when the week began (it holds days 1 and 2 at most)
FailedDayCase(r) ==
    /\ op[r] = "month" /\ args[r].first = 0 /\ args[r].last = 6
    /\ Len(args[r].tasks) = 1
    /\ LET t == args[r].tasks[1] IN
       /\ {x \in 0..6 : is_task_active_on_day(t, x)} = {0, 1, 2}
       /\ t.end_epoch >= args[r].now_epoch
       /\ \A s \in ReqKeys(t) : ReqOf(t, s) = 1 /\ Cardinality(Holders(r, s)) = 1
       /\ DOMAIN args[r].pto_map = {DateKey(0)}
       /\ \E s \in ReqKeys(t) : args[r].pto_map[DateKey(0)] = Holders(r, s)
    /\ args[r].store.kind = "obj"
    /\ \A p \in Persons : \A x \in heap[args[r].store.ref][p] : x \in 1..2

\* C18: a failed day does not stop the week: in the case above day 0 is
\* reported unsatisfied, it is the only day reported, and days 1 and 2 are
\* solved with a holder of every required skill assigned
C18_FailedDayDoesNotStop ==
    \A r \in Running :
        (pc[r] = "done" /\ FailedDayCase(r)) =>
            /\ Len(result[r].unsatisfied) = 1
            /\ result[r].unsatisfied[1][1] = 0
            /\ \A x \in {1, 2} : \A s \in ReqKeys(args[r].tasks[1]) :
                   \E i \in 1..Len(result[r].assignments) :
                       /\ result[r].assignments[i].day = x
                       /\ result[r].assignments[i].task_id = args[r].tasks[1].task_id
                       /\ result[r].assignments[i].person_id \in Holders(r, s)
            /\ \A i \in 1..Len(result[r].assignments) :
                   result[r].assignments[i].day \in {1, 2}

\* the week has returned in the case above with two required skills held
\* by two different persons
C18_Witness ==
    \E r \in Running :
        /\ pc[r] = "done" /\ FailedDayCase(r)
        /\ Holders(r, "a") # Holders(r, "b")
        /\ ReqKeys(args[r].tasks[1]) = {"a", "b"}

\* C19: with an empty people list or an empty task list a solve is
\* feasible with zero assignments: build returns feasible, no violation and
\* no assignment, and schedule_week returns no assignment and no
\* unsatisfied day
C19_EmptyInputFeasible ==
    /\ \A r \in Running :
           (/\ op[r] = "month" /\ pc[r] = "done"
            /\ (args[r].people = <<>> \/ args[r].tasks = <<>>)) =>
               /\ result[r].assignments = <<>>
               /\ result[r].unsatisfied = <<>>
    /\ (hpc = "done" /\ (hargs.people = <<>> \/ hargs.tasks = <<>>)) =>
           /\ schedule.feasible
           /\ schedule.violations = <<>>
           /\ \A k \in 1..Len(schedule.days) : schedule.days[k].assignments = <<>>

\* the interval-active days of task t in the weeks process r schedules
ActiveDays(r, t) ==
    {x \in start_of_week(args[r].first)..(start_of_week(args[r].last) + 6) :
        IntervalActive(t, x)}

\* C20: a task that requires a skill no person possesses is reported on
\* every day of the scheduled week on which its interval meets the day,
\* whatever now_epoch is
C20_MissingSkillReported ==
    \A r \in Running :
        (op[r] = "month" /\ pc[r] = "done") =>
            \A t \in Range(args[r].tasks) :
                (\E s \in ReqKeys(t) : ReqOf(t, s) > 0 /\ Holders(r, s) = {}) =>
                    \A x \in ActiveDays(r, t) :
                        \E i \in 1..Len(result[r].unsatisfied) :
                            result[r].unsatisfied[i][1] = x

\* a requirement of the server task t, or of the horizon task t, is positive
AsksSomebody(t) == \E s \in ReqKeys(t) : ReqOf(t, s) > 0
HzAsksSomebody(t) == \E i \in 1..Len(t.required_skills) : t.required_skills[i][2] > 0

\* the horizon day k is attempted, and a task that asks for somebody is
\* active on it
HzAskedDay(k) ==
    LET iv == _day_interval(hargs.start_day + k - 1)
    IN  /\ hargs.allow_future \/ iv[1] <= hargs.current_ts
        /\ \E t \in Range(hargs.tasks) :
               is_active_on_day(t, iv[1], iv[2]) /\ HzAsksSomebody(t)

\* C19 (as amended): with an empty task list a solve is feasible with zero
\* assignments, in build (feasible, no violation, no assignment) and in
\* schedule_week (no assignment, no unsatisfied day); with an empty people
\* list nobody is assigned, and a day is a violation of build or an
\* unsatisfied day of schedule_week exactly when the scheduler solves the
\* day for a task that asks for at least one person
C19_EmptyTasksFeasibleNobodyAssigned ==
    /\ \A r \in Running :
           (op[r] = "month" /\ pc[r] = "done") =>
               /\ args[r].tasks = <<>> =>
                      /\ result[r].assignments = <<>>
                      /\ result[r].unsatisfied = <<>>
               /\ args[r].people = <<>> =>
                      /\ result[r].assignments = <<>>
                      /\ \A x \in start_of_week(args[r].first)..
                                      (start_of_week(args[r].last) + 6) :
                             (\E i \in 1..Len(result[r].unsatisfied) :
                                  result[r].unsatisfied[i][1] = x)
                             <=> (\E t \in Range(args[r].tasks) :
                                      /\ is_task_active_on_day(t, x)
                                      /\ t.end_epoch >= args[r].now_epoch
                                      /\ AsksSomebody(t))
    /\ hpc = "done" =>
           /\ hargs.tasks = <<>> =>
                  /\ schedule.feasible
                  /\ schedule.violations = <<>>
                  /\ \A k \in 1..Len(schedule.days) :
                         schedule.days[k].assignments = <<>>
           /\ hargs.people = <<>> =>
                  /\ \A k \in 1..Len(schedule.days) :
                         \A a \in Range(schedule.days[k].assignments) :
                             /\ a.people_contributions = <<>>
                             /\ \A s \in DOMAIN a.skill_coverage :
                                    a.skill_coverage[s] = <<>>
                  /\ schedule.feasible <=> (schedule.violations = <<>>)
                  /\ \A k \in 1..hargs.span_days :
                         (isoformat(hargs.start_day + k - 1)
                              \in Range(schedule.violations))
                         <=> HzAskedDay(k)

\* build has returned for an empty people list with a violation on one
\* day and none on another
C19_Witness ==
    /\ hpc = "done"
    /\ hargs.people = <<>>
    /\ hargs.tasks # <<>>
    /\ Len(schedule.violations) = 1
    /\ ~schedule.feasible

\* C21: build returns exactly span_days DaySchedules, and when a day of the
\* horizon failed every returned DaySchedule has an empty assignment list,
\* the solved days included
C21_InfeasibleBlanked ==
    hpc = "done" =>
        /\ Len(schedule.days) = hargs.span_days
        /\ \A k \in 1..Len(schedule.days) :
               schedule.days[k].date = isoformat(hargs.start_day + k - 1)
        /\ ~schedule.feasible =>
               \A k \in 1..Len(schedule.days) : schedule.days[k].assignments = <<>>

\* build has returned an infeasible horizon one of whose days was solved
\* with somebody assigned
C21_Witness ==
    /\ hpc = "done"
    /\ ~schedule.feasible
    /\ \E k \in 1..Len(hdays) : hdays[k].assignments # <<>>

\* the tasks of the horizon whose interval meets horizon day k
HzActive(k) ==
    LET iv == _day_interval(hargs.start_day + k - 1)
    IN  {t \in Range(hargs.tasks) : is_active_on_day(t, iv[1], iv[2])}

\* the skills of the person with the given id
HzSkills(pid) == (CHOOSE p \in Range(hargs.people) : p.person_id = pid).skills

\* record a covers task t exactly: every skill asked for c > 0 times lists
\* c distinct persons who possess it, a skill asked for zero times lists
\* nobody
ExactRecord(a, t) ==
    \A j \in 1..Len(t.required_skills) :
        LET s == t.required_skills[j][1]
            c == t.required_skills[j][2]
        IN  IF c > 0
            THEN /\ s \in DOMAIN a.skill_coverage
                 /\ Len(a.skill_coverage[s]) = c
                 /\ Cardinality(Range(a.skill_coverage[s])) = c
                 /\ \A pid \in Range(a.skill_coverage[s]) :
                        /\ pid \in {p.person_id : p \in Range(hargs.people)}
                        /\ s \in HzSkills(pid)
            ELSE s \notin DOMAIN a.skill_coverage

\* C22: in every feasible HorizonSchedule built with allow_future = true
\* each day holds one record per active task, and for every required skill
\* of the task skill_coverage lists exactly the required number of distinct
\* persons, each of whom possesses the skill
C22_ExactCoveragePerTask ==
    (hpc = "done" /\ schedule.feasible /\ hargs.allow_future) =>
        \A k \in 1..Len(schedule.days) :
            LET recs == schedule.days[k].assignments
            IN  /\ Len(recs) = Cardinality(HzActive(k))
                /\ \A t \in HzActive(k) :
                       \E i \in 1..Len(recs) :
                           /\ recs[i].task_id = t.task_id
                           /\ \A j \in 1..Len(recs) :
                                  recs[j].task_id = t.task_id => j = i
                           /\ ExactRecord(recs[i], t)

\* a feasible horizon with a day on which one task has two persons on one
\* skill and a second task is staffed too
C22_Witness ==
    /\ hpc = "done"
    /\ schedule.feasible
    /\ hargs.allow_future
    /\ \E k \in 1..Len(schedule.days) :
           /\ Len(schedule.days[k].assignments) = 2
           /\ \E i \in 1..2 :
                  "a" \in DOMAIN schedule.days[k].assignments[i].skill_coverage
                  /\ Len(schedule.days[k].assignments[i].skill_coverage["a"]) = 2

\* the person works on day x: a day of the horizon solved so far on which a
\* record names the person, or one of the preworked days, which are the
\* days immediately before the start of the horizon
HzWorked(p, x) ==
    IF x < hargs.start_day
    THEN hargs.start_day - x <= p.preworked_in_last_7
    ELSE /\ x - hargs.start_day + 1 <= Len(hdays)
         /\ \E a \in Range(hdays[x - hargs.start_day + 1].assignments) :
                p.person_id \in DOMAIN a.people_contributions

\* C23: for every person and every horizon day D the days the person is
\* assigned on, before any blanking, and the preworked days number at most
\* 5 within [D-6, D]; a person with preworked value 5 is not assigned on
\* day 0
C23_RollingCap ==
    hpc \in {"build", "try", "done"} =>
        \A p \in Range(hargs.people) :
            /\ \A k \in 1..Len(hdays) :
                   LET D == hargs.start_day + k - 1
                   IN  Cardinality({x \in (D - 6)..D : HzWorked(p, x)}) <= 5
            /\ (p.preworked_in_last_7 = 5 /\ Len(hdays) >= 1) =>
                   ~HzWorked(p, hargs.start_day)

\* a person with five preworked days is assigned on the third day of the
\* horizon after two days off
C23_Witness ==
    /\ hpc = "done"
    /\ \E p \in Range(hargs.people) :
           /\ p.preworked_in_last_7 = 5
           /\ ~HzWorked(p, hargs.start_day)
           /\ ~HzWorked(p, hargs.start_day + 1)
           /\ HzWorked(p, hargs.start_day + 2)

\* the run of the rolling cap exhaustion: one person with five preworked
\* days and one task that asks for one person of the person's skill on
\* every day 0..6, planned with allow_future
SoloAtCap ==
    /\ hpc = "done"
    /\ Len(hargs.people) = 1
    /\ hargs.people[1].preworked_in_last_7 = 5
    /\ hargs.allow_future
    /\ Len(hargs.tasks) = 1
    /\ hargs.tasks[1].required_skills = <<<<"a", 1>>>>
    /\ "a" \in hargs.people[1].skills
    /\ hargs.tasks[1].start_ts <= _day_interval(hargs.start_day)[1]
    /\ hargs.tasks[1].end_ts >= _day_interval(hargs.start_day + 6)[2]

\* C24: in that run a violation is recorded for day 0, and day 1 is solved
\* with the person assigned and without a violation
C24_ResumeAtDayOne ==
    SoloAtCap =>
        /\ isoformat(hargs.start_day) \in Range(violations)
        /\ isoformat(hargs.start_day + 1) \notin Range(violations)
        /\ HzWorked(hargs.people[1], hargs.start_day + 1)

\* C24 (as amended): in that run a violation is recorded for day 0 and for
\* day 1, and day 2 is solved with the person assigned and without a
\* violation
C24_ResumeAtDayTwo ==
    SoloAtCap =>
        /\ isoformat(hargs.start_day) \in Range(violations)
        /\ isoformat(hargs.start_day + 1) \in Range(violations)
        /\ isoformat(hargs.start_day + 2) \notin Range(violations)
        /\ HzWorked(hargs.people[1], hargs.start_day + 2)

\* the run of the rolling cap exhaustion has ended with the person at work
\* on day 2
C24_Witness == SoloAtCap /\ HzWorked(hargs.people[1], hargs.start_day + 2)

\* build is at a horizon day that starts after current_ts, without
\* allow_future
HzAtFutureDay ==
    /\ hpc = "build"
    /\ day_i <= hargs.span_days
    /\ ~hargs.allow_future
    /\ _day_interval(HzDay)[1] > hargs.current_ts

\* C25: without allow_future every horizon day that starts after current_ts
\* gets an empty DaySchedule and no violation, and every person's six-day
\* history advances by one slot that records a day off
C25_SkippedDayExtendsHistory ==
    [][HzAtFutureDay =>
          /\ hdays' = Append(hdays, HzEmptyDay)
          /\ violations' = violations
          /\ \A pid \in DOMAIN history_prev6 :
                 history_prev6'[pid] = Tail(history_prev6[pid]) \o <<0>>]_vars

\* some way of putting persons who worked at most 4 of the previous six
\* days on at most one task each covers every required count of every task
\* active on the day build is at
HzAssignmentExists ==
    LET iv == _day_interval(HzDay)
        today == {t \in Range(hargs.tasks) : is_active_on_day(t, iv[1], iv[2])}
        ids == {t.task_id : t \in today}
        pids == {p.person_id : p \in Range(hargs.people)}
    IN  \E f \in [pids -> ids \cup {"none"}] :
            /\ \A pid \in pids :
                   f[pid] # "none" => SumSeq(history_prev6[pid]) <= 4
            /\ \A t \in today :
                   \A j \in 1..Len(t.required_skills) :
                       Cardinality({pid \in pids :
                           /\ f[pid] = t.task_id
                           /\ t.required_skills[j][1] \in HzSkills(pid)})
                           >= t.required_skills[j][2]

\* C26: a violation is recorded for a non-skipped day only when no
\* assignment exists for it: whenever _attempt_day has used up its
\* orderings, no assignment of distinct persons within the cap covers the
\* tasks of the day
C26_ViolationOnlyIfNoAssignment ==
    (hpc = "try" /\ ord_k > Len(uniq)) => ~HzAssignmentExists

\* C27: solves running in parallel share no scheduling state: of two
\* requests with the same arguments that were handed the same PlanStore
\* object and are interleaved at day granularity, each returns what it
\* returns when it runs alone, so both return the same assignments and the
\* same unsatisfied list
C27_ParallelSolvesIndependent ==
    (/\ \A r \in Procs : op[r] # "none" /\ pc[r] = "done"
     /\ op[1] = op[2] /\ args[1] = args[2]) =>
        /\ result[1].assignments = result[2].assignments
        /\ result[1].unsatisfied = result[2].unsatisfied

\* the Monday on or before day x (day 0 is a Monday)
MondayOnOrBefore(x) == CHOOSE m \in (x - 6)..x : m % 7 = 0

\* the days of the entries a month view returned
SolvedDays(r) ==
    {result[r].assignments[i].day : i \in 1..Len(result[r].assignments)}
        \cup {result[r].unsatisfied[i][1] : i \in 1..Len(result[r].unsatisfied)}

\* no day was solved twice: no day is reported unsatisfied twice or both
\* unsatisfied and staffed, and the days of the entries never go back
SolvedOnce(r) ==
    /\ \A i, j \in 1..Len(result[r].unsatisfied) :
           i < j => result[r].unsatisfied[i][1] < result[r].unsatisfied[j][1]
    /\ \A i, j \in 1..Len(result[r].assignments) :
           i < j => result[r].assignments[i].day <= result[r].assignments[j].day
    /\ \A i \in 1..Len(result[r].unsatisfied) :
           \A j \in 1..Len(result[r].assignments) :
               result[r].unsatisfied[i][1] # result[r].assignments[j].day

\* C28: every assignment and every unsatisfied entry of generate_month_view
\* has a day from the Monday on or before the first of the month to the
\* last day of the month, and no day is solved twice
C28_WithinMonth ==
    \A r \in Running :
        (op[r] = "month" /\ pc[r] = "done") =>
            /\ \A x \in SolvedDays(r) :
                   MondayOnOrBefore(args[r].first) <= x /\ x <= args[r].last
            /\ SolvedOnce(r)

\* C28 (as amended): every assignment and every unsatisfied entry of
\* generate_month_view has a day from the Monday on or before the first of
\* the month to the Sunday on or after the last day of the month, and no
\* day is solved twice
C28_WithinWeeksOfMonth ==
    \A r \in Running :
        (op[r] = "month" /\ pc[r] = "done") =>
            /\ \A x \in SolvedDays(r) :
                   /\ MondayOnOrBefore(args[r].first) <= x
                   /\ x <= MondayOnOrBefore(args[r].last) + 6
            /\ SolvedOnce(r)

\* a month view has returned an entry for a day before the first of the
\* month and one for a day after the last
C28_Witness ==
    \E r \in Running :
        /\ op[r] = "month" /\ pc[r] = "done"
        /\ \E x \in SolvedDays(r) : x < args[r].first
        /\ \E x \in SolvedDays(r) : x > args[r].last

\* the number of days of week w on which by_day assigns person pid
CapCount(pid, w) ==
    Cardinality({dy \in 0..(Len(by_day) - 1) :
                    /\ week_id_for_day(dy) = w
                    /\ \E i \in 1..Len(by_day[dy + 1]) : by_day[dy + 1][i].pid = pid})

\* once schedule() runs nobody is assigned on more days of a week than
\* weekly_cap, and the sanity check of schedule() has not raised
WithinWeeklyCap ==
    /\ cpc # "new" =>
       \A pid \in CapPids : \A w \in 0..week_id_for_day(CapHorizon) :
              CapCount(pid, w) <= cargs.weekly_cap
    /\ raised # "AssertionError"

C30_FeasibleScheduleValidates ==
    (wpc = "done" /\ week.feasible) => (verdict.ok /\ verdict.errors = <<>>)

\* the persons a PTO map lists for a key, none when the key is absent
PtoIdsOf(m, k) == IF k \in DOMAIN m THEN Range(m[k]) ELSE {}

\* the days of person p in an assignment list
DaysIn(assignments, p) ==
    {assignments[i].day : i \in {j \in 1..Len(assignments) : assignments[j].person_id = p}}

\* C31: cache_schedule commits the given assignments to the store and
\* returns a PTO map that, when accept_pto is true, is the per-day union of
\* the base PTO map and the pending PTO map, and when accept_pto is false
\* equals the base PTO map alone.
C31_CacheScheduleMergesPending ==
    [][(pc[1] = "call" /\ pc'[1] = "done") =>
          LET a == args[1]
          IN  /\ \A p \in Persons :
                     heap'[a.store][p] = heap[a.store][p] \cup DaysIn(a.assignments, p)
              /\ IF a.accept_pto
                 THEN /\ DOMAIN result'[1] = DOMAIN a.pto_map \cup DOMAIN a.pending_pto
                      /\ \A k \in DOMAIN result'[1] :
                             Range(result'[1][k]) =
                                 PtoIdsOf(a.pto_map, k) \cup PtoIdsOf(a.pending_pto, k)
                 ELSE /\ DOMAIN result'[1] = DOMAIN a.pto_map
                      /\ \A k \in DOMAIN result'[1] :
                             Range(result'[1][k]) = PtoIdsOf(a.pto_map, k)]_vars

\* an accepted call has returned: a pending day the base map did not have,
\* a day of both maps on which the pending list adds a person, and
\* assignments committed to a store that held days
C31_Witness ==
    /\ pc[1] = "done"
    /\ op[1] = "cache"
    /\ args[1].accept_pto
    /\ DOMAIN args[1].pending_pto \ DOMAIN args[1].pto_map # {}
    /\ \E k \in DOMAIN args[1].pending_pto \cap DOMAIN args[1].pto_map :
           /\ ~(Range(args[1].pending_pto[k]) \subseteq Range(args[1].pto_map[k]))
           /\ ~(Range(args[1].pto_map[k]) \subseteq Range(args[1].pending_pto[k]))
           /\ Range(result[1][k]) =
                  Range(args[1].pto_map[k]) \cup Range(args[1].pending_pto[k])
    /\ heap[1]["p1"] = {0, 3}
    /\ heap[1]["p2"] = {1}

\* the (task, skill) pairs of positive deficit of the DaySolver of process r
OpenNeeds(r) ==
    {e \in UNION {{<<tid, s>> : s \in DOMAIN deficits[r][tid]} : tid \in DOMAIN deficits[r]} :
        deficits[r][e[1]][e[2]] > 0}

\* larger deficit first, then task name, then skill name
NeedRank(r, e) ==
    <<0 - deficits[r][e[1]][e[2]], Ord(task_by_id(sTasks[r], e[1]).name), Ord(e[2])>>

\* C32: _select_next_need returns, among the (task, skill) pairs of
\* positive deficit, the pair of the largest deficit, ties broken by task
\* name ascending and then skill name ascending, whatever the order of the
\* tasks and of the requirement keys; it returns none exactly when no
\* deficit is positive.
C32_NextNeedIsLargestDeficit ==
    [][\A r \in Procs :
          (pc[r] = "bt_enter" /\ pc'[r] # "bt_enter") =>
              /\ (pc'[r] = "bt_ret") <=> (OpenNeeds(r) = {})
              /\ (pc'[r] = "bt_loop") =>
                     LET f == stack'[r][Len(stack'[r])]
                         got == <<f.task_id, f.skill>>
                     IN  /\ got \in OpenNeeds(r)
                         /\ \A e \in OpenNeeds(r) \ {got} :
                                LexLess(NeedRank(r, got), NeedRank(r, e))]_vars

\* a need was chosen that the loops did not visit first: another pair of
\* the same deficit comes before it in the order of the tasks and keys
C32_Witness ==
    /\ pc[1] = "bt_loop"
    /\ Top(1).i = 1
    /\ Cardinality(OpenNeeds(1)) >= 3
    /\ LET order == NeedOrder(sTasks[1], deficits[1])
           got == <<Top(1).task_id, Top(1).skill>>
       IN  \E i \in 1..Len(order), j \in 1..Len(order) :
               /\ i < j
               /\ order[j] = got
               /\ order[i] \in OpenNeeds(1)
               /\ deficits[1][order[i][1]][order[i][2]] = deficits[1][got[1]][got[2]]

\* the persons _candidates_for is to return for the need on top of the
\* stack of process r: not on PTO on the day, not assigned today, holding
\* the skill, with at most 4 stored days in the 7 days ending on the day
Candidates(r) ==
    {p \in Range(sPeople[r]) :
        /\ ~(d[r] \in DOMAIN PtoIds(r) /\ p \in PtoIds(r)[d[r]])
        /\ \A i \in 1..Len(assigned_today[r]) : assigned_today[r][i][1] # p
        /\ Top(r).skill \in skillsOf[p]
        /\ Cardinality({x \in Store(r)[p] : d[r] - 6 <= x /\ x <= d[r]}) <= 4}

\* the three ranking keys of person p for the need on top of the stack
CandidateRank(r, p) ==
    <<0 - Cardinality({s \in ReqKeys(task_by_id(sTasks[r], Top(r).task_id)) :
                          /\ s \in skillsOf[p]
                          /\ s \in DOMAIN deficits[r][Top(r).task_id]
                          /\ deficits[r][Top(r).task_id][s] > 0}),
      Cardinality({x \in Store(r)[p] : d[r] - 6 <= x /\ x <= d[r] - 1}),
      Ord(PersonName[p])>>

\* C33: _candidates_for(T, s) returns exactly the persons who are not on
\* PTO for D, not yet assigned today, possess s and pass
\* can_assign(pending_same_day=false), ordered by the number of still-needed
\* skills of T they cover (descending), then by days committed in
\* [D-6, D-1] (ascending), then by name (ascending).
C33_CandidatesFilteredAndRanked ==
    \A r \in Procs :
        pc[r] = "bt_loop" =>
            LET cands == Top(r).cands
            IN  /\ Range(cands) = Candidates(r)
                /\ Len(cands) = Cardinality(Candidates(r))
                /\ \A i \in 1..Len(cands), j \in 1..Len(cands) :
                       i < j => ~LexLess(CandidateRank(r, cands[j]),
                                         CandidateRank(r, cands[i]))

\* two candidates were ranked by their committed days against their names,
\* with a third person left out
C33_Witness ==
    /\ pc[1] = "bt_loop"
    /\ Len(Top(1).cands) = 2
    /\ Cardinality({p \in Range(sPeople[1]) : Top(1).skill \in skillsOf[p]}) = 3
    /\ CandidateRank(1, Top(1).cands[1])[1] = CandidateRank(1, Top(1).cands[2])[1]
    /\ CandidateRank(1, Top(1).cands[1])[2] < CandidateRank(1, Top(1).cands[2])[2]
    /\ CandidateRank(1, Top(1).cands[1])[3] > CandidateRank(1, Top(1).cands[2])[3]

\* the total remaining deficit of the DaySolver of process r
TotalDeficit(r) ==
    LET open == OpenNeeds(r)
    IN  SumOver([e \in open |-> deficits[r][e[1]][e[2]]], open)

\* the frames of process r whose tentative assignment stands: all but the
\* top one while the candidate loop of the top frame is at its head
Standing(r) == 1..(Len(stack[r]) - 1)

\* C34: every tentative assignment made in backtrack() strictly reduces the
\* total remaining deficit, every failed branch is undone before the next
\* candidate is tried (at the head of a candidate loop the deficits and
\* assigned_today are those of the assignments of the enclosing calls
\* alone), and every solve() that is started returns.
C34_SolveTerminates ==
    /\ [][\A r \in Procs :
             (pc[r] = "bt_loop" /\ pc'[r] = "bt_check") =>
                 TotalDeficit(r)' < TotalDeficit(r)]_vars
    /\ [](\A r \in Procs :
             pc[r] = "bt_loop" =>
                 /\ {assigned_today[r][i][1] : i \in 1..Len(assigned_today[r])} =
                        {stack[r][k].cands[stack[r][k].i] : k \in Standing(r)}
                 /\ \A tid \in DOMAIN deficits[r] : \A s \in DOMAIN deficits[r][tid] :
                        deficits[r][tid][s] =
                            InitDeficits(sTasks[r])[tid][s] -
                                Cardinality({k \in Standing(r) :
                                    /\ stack[r][k].task_id = tid
                                    /\ \E n \in 1..Len(stack[r][k].changes) :
                                           stack[r][k].changes[n][1] = s}))
    /\ \A r \in Procs : (pc[r] = "solve") ~> (pc[r] = "solve_ret")

\* a solve has returned infeasible after a branch of two tentative
\* assignments failed and was undone
C34_Witness ==
    /\ pc[1] = "bt_loop"
    /\ Len(stack[1]) = 2
    /\ Top(1).i > Len(Top(1).cands)
    /\ Top(1).i > 1
    /\ stack[1][1].i > 1

\* the number of backtrack() calls of process r that have not returned: one
\* per frame, and the call that has been entered or is returning without a
\* frame of its own
Depth(r) ==
    CASE pc[r] \in {"bt_enter", "bt_ret"} -> Len(stack[r]) + 1
      [] pc[r] \in {"bt_loop", "bt_check"} -> Len(stack[r])
      [] OTHER -> 0

\* the (task, skill) pairs the tasks of the day require, and the sum of
\* their counts
ReqPairs(r) ==
    LET def == InitDeficits(sTasks[r])
    IN  UNION {{<<tid, s>> : s \in DOMAIN def[tid]} : tid \in DOMAIN def}

ReqUnits(r) ==
    LET def == InitDeficits(sTasks[r])
    IN  SumOver([e \in ReqPairs(r) |-> def[e[1]][e[2]]], ReqPairs(r))

\* C35 as stated: the recursion depth of backtrack() never exceeds the
\* number of (task, skill) pairs with a positive requirement among the
\* tasks active on the day.
C35_DepthWithinPairs ==
    \A r \in Procs : Depth(r) <= Cardinality(ReqPairs(r))

\* C35 amended: the recursion depth of backtrack() never exceeds one more
\* than the sum of the positive requirement counts of the tasks active on
\* the day.
C35_DepthWithinUnits ==
    \A r \in Procs : Depth(r) <= ReqUnits(r) + 1

\* a requirement of two is covered by two nested calls, and a third call
\* finds nothing left to do
C35_Witness ==
    /\ pc[1] = "bt_enter"
    /\ Len(stack[1]) = ReqUnits(1)
    /\ Depth(1) = ReqUnits(1) + 1
    /\ ReqUnits(1) > Cardinality(ReqPairs(1))
    /\ stack[1][1].task_id = stack[1][2].task_id
    /\ stack[1][1].skill = stack[1][2].skill

\* C36: the re-check can_assign(person, day, pending_same_day=True) made
\* after a tentative assignment holds for every candidate _candidates_for
\* returned, so the branch that undoes the assignment at that step is
\* never taken.
C36_RecheckNeverFails ==
    /\ [](\A r \in Procs :
             pc[r] = "bt_check" =>
                 LET p == Top(r).cands[Top(r).i]
                 IN  count_in_window(Store(r), p, d[r] - 6, d[r]) +
                         (IF assigned_on(Store(r), p, d[r]) THEN 0 ELSE 1) <= 5)
    /\ [][\A r \in Procs : pc[r] = "bt_check" => pc'[r] # "bt_loop"]_vars

\* a candidate who is already on five of the seven days that end with the
\* day passes the re-check at the limit
C36_Witness ==
    /\ pc[1] = "bt_check"
    /\ count_in_window(Store(1), Top(1).cands[Top(1).i], d[1] - 6, d[1]) = 4
    /\ ~assigned_on(Store(1), Top(1).cands[Top(1).i], d[1])

\* the active tasks of the day solve of process r that require somebody
Asking(r) == {t \in Range(sTasks[r]) : \E s \in ReqKeys(t) : ReqOf(t, s) > 0}

\* the positive requirements of task t at their full counts
FullCounts(t) == [s \in {k \in ReqKeys(t) : ReqOf(t, k) > 0} |-> ReqOf(t, s)]

\* solve() of process r returns infeasible with everything undone and the
\* deficit map reported for the day lists every asking task in full
ReportsInFull(r) ==
    /\ assigned_today[r] = <<>>
    /\ deficits[r] = InitDeficits(sTasks[r])
    /\ LET report == unsatisfied'[r][Len(unsatisfied'[r])]
       IN  /\ Len(unsatisfied'[r]) = Len(unsatisfied[r]) + 1
           /\ report[1] = d[r]
           /\ DOMAIN report[2] = {t.name : t \in Asking(r)}
           /\ \A t \in Asking(r) : report[2][t.name] = FullCounts(t)

ActiveOn(r, day) ==
    {t \in Range(args[r].tasks) :
        is_task_active_on_day(t, day) /\ t.end_epoch >= args[r].now_epoch}

DayUnits(r, day) ==
    LET ts == args[r].tasks
    IN  SumSeq([i \in 1..Len(ts) |->
                   IF ts[i] \in ActiveOn(r, day)
                   THEN SumOver(FullCounts(ts[i]), DOMAIN FullCounts(ts[i]))
                   ELSE 0])

\* the assignments of the week of process r that are for day
OnDay(r, day) == {i \in 1..Len(wk_assignments[r]) : wk_assignments[r][i].day = day}

\* C38: every tentative assignment covers at least one unit of deficit, so
\* a successful solve() returns no more assignments than the sum of the
\* requirement counts of the day's active tasks, and the week's assignments
\* hold nobody on a day without active tasks.
C38_AssignmentsWithinRequirements ==
    \A r \in Procs :
        /\ pc[r] = "bt_check" => Top(r).changes # <<>>
        /\ (pc[r] = "solve_ret" /\ feasible[r]) =>
               Len(SolveResults(d[r], sTasks[r], assigned_today[r])) <= DayUnits(r, d[r])
        /\ \A i \in 1..Len(wk_assignments[r]) :
               LET day == wk_assignments[r][i].day
               IN  /\ ActiveOn(r, day) # {}
                   /\ Cardinality(OnDay(r, day)) <= DayUnits(r, day)

\* a week holds a day with fewer assignments than units, because one
\* person covered two skills, next to a day without active tasks on which
\* nobody is assigned
C38_Witness ==
    /\ pc[1] = "weeks"
    /\ \E day \in {wk_assignments[1][i].day : i \in 1..Len(wk_assignments[1])} :
           /\ Cardinality(OnDay(1, day)) < DayUnits(1, day)
           /\ \E other \in (day - 6)..(day + 6) :
                  /\ start_of_week(other) = start_of_week(day)
                  /\ ActiveOn(1, other) = {}

\* the persons named in the DaySchedule ds
AssignedIn(ds) ==
    UNION {DOMAIN ds.assignments[i].people_contributions : i \in 1..Len(ds.assignments)}

\* the day build() is at is skipped as a future day
HzSkipped ==
    (~hargs.allow_future) /\ (_day_interval(HzDay)[1] > hargs.current_ts)

\* C39: every history_prev6 holds six entries, each 0 or 1, of sum at most
\* 5; an ordering that fails leaves history_prev6 as it was; and a day that
\* is not skipped as a future day appends one entry to every person's
\* history, dropping the oldest: 1 for the persons in the DaySchedule of the
\* day, 0 for the others and for everybody on a failed day.
C39_HistoryWindow ==
    /\ [](hpc \in {"build", "try", "done"} =>
             \A pid \in DOMAIN history_prev6 :
                 /\ Len(history_prev6[pid]) = 6
                 /\ \A i \in 1..6 : history_prev6[pid][i] \in {0, 1}
                 /\ SumSeq(history_prev6[pid]) <= 5)
    /\ [][(hpc = "try" /\ hpc' = "try") => history_prev6' = history_prev6]_vars
    /\ [][(hpc \in {"build", "try"} /\ day_i' = day_i + 1) =>
             /\ Len(hdays') = Len(hdays) + 1
             /\ (violations' # violations) => hdays'[Len(hdays')].assignments = <<>>
             /\ DOMAIN history_prev6' = DOMAIN history_prev6
             /\ \A pid \in DOMAIN history_prev6 :
                    history_prev6'[pid] =
                        IF HzSkipped THEN history_prev6[pid]
                        ELSE Tail(history_prev6[pid]) \o
                                 <<IF pid \in AssignedIn(hdays'[Len(hdays')])
                                   THEN 1 ELSE 0>>]_vars

\* an ordering of the day has failed and the next one is about to be
\* tried, after a day on which one person was assigned and another, with
\* five days in the window, was not
C39_Witness ==
    /\ hpc = "try"
    /\ ord_k = 2
    /\ ord_k <= Len(uniq)
    /\ day_i >= 2
    /\ hdays[Len(hdays)].assignments # <<>>
    /\ \E p1, p2 \in DOMAIN history_prev6 :
           /\ history_prev6[p1][6] = 1
           /\ p1 \in AssignedIn(hdays[Len(hdays)])
           /\ history_prev6[p2][6] = 0
           /\ SumSeq(history_prev6[p2]) = 5

====
